---- MODULE Spec2Model ----
(***************************************************************************)
(* Peer bookkeeping and request scheduling of the block downloader         *)
(* (ctxc/downloader/peer.go): peerConnection (per-kind activity flags,     *)
(* start timestamps, rate tracker handle, lacking set) and peerSet (the    *)
(* registry).  Every exported method is run by a thread as a sequence of   *)
(* atomic steps: one step per atomic operation on shared state.  Steps     *)
(* that touch only state guarded by a lock the thread holds are joined     *)
(* with the neighbouring step.                                             *)
(***************************************************************************)
EXTENDS Integers, Sequences, FiniteSets, TLC

\* ---------------------------------------------------------------- bounds
MaxFetches == 2      \* requests won by Fetch* in one behaviour
MaxResets == 1       \* Reset invocations in one behaviour
MaxMarks == 1        \* MarkLacking invocations in one behaviour
MaxRegs == 2         \* Register and Unregister invocations in one behaviour
MaxDelivered == 1    \* item counts passed to Set*Idle: 0..MaxDelivered
MaxTime == 3         \* the clock is not advanced past this without a Fetch
ChanCap == 1         \* buffer of the channel a subscriber hands to Subscribe*
MaxWrites == 3       \* Write invocations on the segment in one behaviour
CacheCap == 1        \* blocks the block cache of the segment holds
blockSize == 16      \* blockSize (32 KB in the source), scaled down

\* ------------------------------------------------------------- universe
Threads == {"t1", "t2"}
Conns == {"c1", "c2"}

\* The connection objects constructed and not yet registered: c3 has an id of
\* its own, c4 carries the id of c1.
Newcomers == {"c3", "c4"}
Sessions == Conns \cup Newcomers
Hashes == {"h1", "h2", "h3"}
Kinds == {"headers", "bodies", "receipts", "state"}

\* The order in which Reset clears the four flags.
KindOrder == <<"headers", "bodies", "receipts", "state">>

\* peerConnection.id of each connection object.
ConnId == [c \in Sessions |-> CASE c = "c1" -> "A"
                              [] c = "c2" -> "B"
                              [] c = "c3" -> "C"
                              [] OTHER -> "A"]
Ids == {ConnId[c] : c \in Sessions}

\* peerConnection.version of each connection object: c1 speaks 63, c2 an older
\* protocol, c3 65 and c4 64.
Versions == {v \in [Sessions -> 61..65] :
                /\ v["c1"] = 63 /\ v["c2"] < 63 /\ v["c3"] = 65 /\ v["c4"] = 64}

\* The event feeds of the peer set, and the buffer of a subscriber's channel.
Feeds == {"joined", "left"}

\* maxLackingHashes (4096 in the source), scaled down.
maxLackingHashes == 2

\* A sanity check that accepts version 62 for every kind.
FloorLax(k) == 62

\* The minimal protocol version each Fetch* accepts (its sanity check).
Floor(k) == IF k \in {"headers", "bodies"} THEN 62 ELSE 63

\* The bounds of the *IdlePeers queries: ps.idlePeers(63, 65, ...).
idleMinProtocol == 63
idleMaxProtocol == 65

\* The invocations allowed to each class of method.
MaxOf == [fetch |-> MaxFetches, reset |-> MaxResets, mark |-> MaxMarks,
          reg |-> MaxRegs]

NoThread == "none"
NoConn == "none"
ZeroTime == 0

\* A nil *msgrate.Tracker: peerConnection.rates before Register.
NoTracker == [nil |-> TRUE, capacity |-> [k \in Kinds |-> 0], roundtrip |-> 0]

\* msgrate.NewTracker(caps, rtt)
NewTracker(caps, rtt) ==
    [nil |-> FALSE, capacity |-> caps, roundtrip |-> rtt]

\* The round trip assumed while no tracker is known.
rttStartEstimate == 2

errAlreadyFetching == "errAlreadyFetching"
errAlreadyRegistered == "errAlreadyRegistered"
errNotRegistered == "errNotRegistered"

VARIABLES
    now,        \* time.Now(); the clock advances whenever a Fetch has read it
    calls,      \* number of invocations so far, per class of method
    crashed,    \* an unrecovered panic has ended the process
    version,    \* peerConnection.version
    busy,       \* headerIdle/blockIdle/receiptIdle/stateIdle (true = fetching)
    started,    \* headerStarted/blockStarted/receiptStarted/stateStarted
    tracker,    \* peerConnection.rates
    lacking,    \* peerConnection.lacking
    plock,      \* peerConnection.lock, the thread holding it exclusively
    peers,      \* peerSet.peers: id -> connection
    tracked,    \* ids known to peerSet.rates
    joined,     \* what newPeerFeed.Send has published
    left,       \* what peerDropFeed.Send has published
    pslock,     \* peerSet.lock: the writer and the readers holding it
    feed,       \* newPeerFeed, peerDropFeed: the subscriber's channel, if any
    pc,         \* each thread's position
    call,       \* each thread's current invocation
    reqs,       \* the requests won by a Fetch and not yet completed by Set*Idle
    tainted,    \* history: Reset cleared the flag under a request not yet completed
    wins,       \* history: winning CompareAndSwaps since the flag was last cleared
    observed,   \* history: the arguments of each p.rates.Update call, per connection
    marked,     \* history: the MarkLacking calls since the connection was made or
                \* last Reset, each with its hash and the set it met
    seg,        \* the segment: its file, block number and size, closed, cache
    segReader,  \* the segmentReader's blockNumber and chunkOffset, if any
    written,    \* history: the data and the position of each completed Write
    returned,   \* history: the data and the position of each successful Next
    nextErr     \* history: the error of the latest Next

segVars == <<seg, segReader, written, returned, nextErr>>

vars == <<now, calls, crashed, version, segVars, busy, started, tracker, lacking, plock,
          peers, tracked, joined, left, pslock, feed, pc, call, reqs, tainted,
          wins, observed, marked>>

sessionVars == <<busy, started, tracker, lacking, plock>>
registryVars == <<peers, tracked, joined, left, pslock, feed>>
historyVars == <<reqs, tainted, wins, observed, marked>>

\* No invocation: no connection, no kind, request 0 (requests count from 1),
\* no id, no connections left to visit.
NoCall == [op |-> "none", c |-> NoConn, k |-> "none", r |-> 0, n |-> 0,
           id |-> "none", rest |-> {}]

\* sync.RWMutex, unlocked: no writer and no readers.
NoLock == [w |-> NoThread, r |-> {}]

\* An event.Feed nobody has subscribed to.
NoSubscriber == [on |-> FALSE, ch |-> <<>>]

\* ------------------------------------------------------------ requests
\* A request: the connection and kind it was won on, the start timestamp its
\* Fetch wrote (ZeroTime before), the goroutines spawned for it, how many of
\* them have called p.peer.RequestX, and whether its Set*Idle is under way.
ReqIds == 1..(MaxFetches + Cardinality(Threads))
Req(r) == CHOOSE q \in reqs : q.id = r
LiveReqs == {q.id : q \in reqs}
UsedReqs == LiveReqs \cup {call[t].r : t \in Threads}
FreshReq == CHOOSE i \in ReqIds : i \notin UsedReqs /\ \A j \in 1..(i - 1) : j \in UsedReqs
SetReq(q) == {p \in reqs : p.id # q.id} \cup {q}

\* The requests of kind k on connection c whose Fetch has won the flag and
\* whose Set*Idle has not completed.
Won(c, k) == {q.id : q \in {p \in reqs : p.c = c /\ p.k = k}}

\* Those of them that their Fetch has dispatched.
Outstanding(c, k) == {q.id : q \in {p \in reqs : p.c = c /\ p.k = k /\ p.go > 0}}

\* ------------------------------------------------------------- segment
\* ChunkType
ChunkTypeFull == 0
ChunkTypeFirst == 1
ChunkTypeMiddle == 2
ChunkTypeLast == 3

\* The chunk header: Checksum 4 bytes, Length 2 bytes, Type 1 byte.
chunkHeaderSize == 7

\* The payload bytes one block holds behind one chunk header.
BlockRoom == blockSize - chunkHeaderSize

\* The lengths of the data passed to Write: nothing, one byte, what leaves
\* exactly or not quite a header's room in the block, what fills a block or
\* exceeds it by one byte, and what fills or just exceeds two blocks.
DataLens == {0, 1, BlockRoom - chunkHeaderSize, BlockRoom - chunkHeaderSize + 1,
             BlockRoom, BlockRoom + 1, 2 * BlockRoom, 2 * BlockRoom + 1}

\* The data of the n-th Write, of the given length: no byte occurs in two
\* Writes or twice in one.
Payload(n, len) == [i \in 1..len |-> (32 * n + i) % 256]

\* What a block buffer taken from seg.blockPool holds beyond the bytes read
\* into it: whatever an earlier read has left there.
Stale == -1

\* No segmentReader has been made; no position.
NoReader == [blockNumber |-> -1, chunkOffset |-> -1]
NoChunk == [BlockNumber |-> -1, ChunkOffset |-> -1]

\* binary.LittleEndian.PutUint16, Uint16, PutUint32, Uint32
PutUint16(v) == <<v % 256, (v \div 256) % 256>>
Uint16(b) == b[1] + 256 * b[2]
PutUint32(v) == <<v % 256, (v \div 256) % 256, (v \div 65536) % 256,
                  (v \div 16777216) % 256>>
Uint32(b) == b[1] + 256 * b[2] + 65536 * b[3] + 16777216 * b[4]

\* crc32.Update(sum, crc32.IEEETable, bytes): the checksum is continued over
\* further bytes.  A polynomial over a prime modulus stands for CRC-32.
RECURSIVE crcUpdate(_, _)
crcUpdate(sum, bytes) ==
    IF bytes = <<>> THEN sum
    ELSE crcUpdate((sum * 31 + Head(bytes) + 1) % 65521, Tail(bytes))

\* crc32.ChecksumIEEE(bytes)
ChecksumIEEE(bytes) == crcUpdate(0, bytes)

\* openSegmentFile: the block number and the block size are those of the end
\* of the file; the cache is the one handed in, or nil.
openSegmentFile(file, cacheOn) ==
    [fd |-> file,
     currentBlockNumber |-> Len(file) \div blockSize,
     currentBlockSize |-> Len(file) % blockSize,
     closed |-> FALSE,
     cache |-> [on |-> cacheOn, entries |-> <<>>]]

\* No segment file is open, no reader has been made.
NoSegment ==
    /\ seg = [openSegmentFile(<<>>, FALSE) EXCEPT !.closed = TRUE]
    /\ segReader = NoReader
    /\ written = <<>>
    /\ returned = <<>>
    /\ nextErr = "nil"

\* seg.Size()
Size(s) == s.currentBlockNumber * blockSize + s.currentBlockSize

\* A writeInternal that stays in the block it has filled.
updateFieldsStays(s, n) == [s EXCEPT !.currentBlockSize = @ + n]

\* writeInternal, the update of the fields: n bytes have been appended, and a
\* block that is full now is followed by a new one.
updateFields(s, n) ==
    LET size == s.currentBlockSize + n
    IN IF size = blockSize
       THEN [s EXCEPT !.currentBlockNumber = @ + 1, !.currentBlockSize = 0]
       ELSE [s EXCEPT !.currentBlockSize = size]

\* seg.writeInternal(data, chunkType): the header with length, type and
\* checksum and then the data are appended to the file; panic when the block
\* size was exceeded before, else the fields are updated.
writeInternal(s, data, chunkType) ==
    LET dataSize == Len(data)
        lengthAndType == PutUint16(dataSize % 65536) \o <<chunkType>>
        sum == crcUpdate(ChecksumIEEE(lengthAndType), data)
        header == PutUint32(sum) \o lengthAndType
        appended == [s EXCEPT !.fd = @ \o header \o data]
    IN IF s.currentBlockSize > blockSize
       THEN [seg |-> appended, panic |-> TRUE]
       ELSE [seg |-> updateFields(appended, dataSize + chunkHeaderSize),
             panic |-> FALSE]

\* Write, its first part: when what is left of the block is not more than a
\* chunk header, the block is padded with zeros and a new block begins.
padded(s) ==
    IF s.currentBlockSize + chunkHeaderSize >= blockSize
    THEN [s EXCEPT !.fd = IF s.currentBlockSize < blockSize
                          THEN @ \o [i \in 1..(blockSize - s.currentBlockSize) |-> 0]
                          ELSE @,
                   !.currentBlockNumber = @ + 1,
                   !.currentBlockSize = 0]
    ELSE s

\* A Write that never marks a chunk as the last one.
chunkTypeOfNoLast(leftSize, dataSize, chunkSize) ==
    IF leftSize = dataSize THEN ChunkTypeFirst ELSE ChunkTypeMiddle

\* Write, the type of the chunk that takes chunkSize of the leftSize bytes
\* still to be written.
chunkTypeOf(leftSize, dataSize, chunkSize) ==
    IF leftSize = dataSize THEN ChunkTypeFirst
    ELSE IF leftSize = chunkSize THEN ChunkTypeLast
    ELSE ChunkTypeMiddle

\* Write, the loop `for leftSize > 0`: the next chunk takes what is left of the
\* block behind its header, or what is left of the data.  The subtraction is
\* unsigned in the source: below zero it yields more than any leftSize.  r
\* carries the segment, the count of chunks, and the place of each chunk in
\* the file.
RECURSIVE writeChunks(_, _, _)
writeChunks(r, data, leftSize) ==
    IF leftSize = 0 \/ r.panic THEN r
    ELSE LET s == r.seg
             dataSize == Len(data)
             room == blockSize - s.currentBlockSize - chunkHeaderSize
             chunkSize == IF room < 0 \/ room > leftSize THEN leftSize ELSE room
             reach == dataSize - leftSize + chunkSize
             end == IF reach > dataSize THEN dataSize ELSE reach
             chunk == SubSeq(data, dataSize - leftSize + 1, end)
             w == writeInternal(s, chunk, chunkTypeOf(leftSize, dataSize, chunkSize))
         IN writeChunks([seg |-> w.seg,
                         panic |-> w.panic,
                         blockCount |-> r.blockCount + 1,
                         chunks |-> Append(r.chunks, [from |-> Len(s.fd),
                                                      to |-> Len(w.seg.fd)])],
                        data, leftSize - chunkSize)

\* What seg.Write(data) does to an open segment and returns: the segment, the
\* position of the data, whether writeInternal has panicked, and the place of
\* each chunk in the file.
WriteResult(s, data) ==
    LET p == padded(s)
        dataSize == Len(data)
    IN IF p.currentBlockSize + dataSize + chunkHeaderSize <= blockSize
       THEN LET w == writeInternal(p, data, ChunkTypeFull)
            IN [seg |-> w.seg,
                panic |-> w.panic,
                position |-> [BlockNumber |-> p.currentBlockNumber,
                              ChunkOffset |-> p.currentBlockSize,
                              ChunkSize |-> dataSize + chunkHeaderSize],
                chunks |-> <<[from |-> Len(p.fd), to |-> Len(w.seg.fd)]>>]
       ELSE LET r == writeChunks([seg |-> p, panic |-> FALSE, blockCount |-> 0,
                                  chunks |-> <<>>], data, dataSize)
            IN [seg |-> r.seg,
                panic |-> r.panic,
                position |-> [BlockNumber |-> p.currentBlockNumber,
                              ChunkOffset |-> p.currentBlockSize,
                              ChunkSize |-> r.blockCount * chunkHeaderSize + dataSize],
                chunks |-> r.chunks]

\* seg.cache.Get(key): the entry becomes the most recently used one.
cacheGet(cache, key) ==
    LET i == CHOOSE j \in DOMAIN cache.entries : cache.entries[j].key = key
        others == SelectSeq(cache.entries, LAMBDA e : e.key # key)
    IN [cache EXCEPT !.entries = Append(others, cache.entries[i])]

\* seg.cache.Add(key, block): the least recently used entry makes room.
cacheAdd(cache, key, block) ==
    LET others == SelectSeq(cache.entries, LAMBDA e : e.key # key)
        all == Append(others, [key |-> key, block |-> block])
    IN [cache EXCEPT !.entries = IF Len(all) > CacheCap THEN Tail(all) ELSE all]

\* A reader that goes on to the next block only when no byte is left.
nextChunkWhenFull(blockNumber, checksumEnd) ==
    IF checksumEnd >= blockSize
    THEN [BlockNumber |-> blockNumber + 1, ChunkOffset |-> 0]
    ELSE [BlockNumber |-> blockNumber, ChunkOffset |-> checksumEnd]

\* readInternal, the position behind a Full or Last chunk that ends at
\* checksumEnd: when what is left of the block is not more than a chunk
\* header it is padding, and the next chunk begins the next block.
nextChunkAfter(blockNumber, checksumEnd) ==
    IF checksumEnd + chunkHeaderSize >= blockSize
    THEN [BlockNumber |-> blockNumber + 1, ChunkOffset |-> 0]
    ELSE [BlockNumber |-> blockNumber, ChunkOffset |-> checksumEnd]

\* seg.readInternal(blockNumber, chunkOffset) on an open segment, from the
\* loop on: per block, the end-of-file test, the block from the cache or from
\* the file (a complete block is then cached), the header, the data, the
\* checksum, and the type, which ends the loop or leads to the next block.
\* result holds the data of the chunks read so far.  A slice beyond the block
\* buffer is a panic.
RECURSIVE readInternal(_, _, _, _)
readInternal(s, blockNumber, chunkOffset, result) ==
    LET segSize == Size(s)
        offset == blockNumber * blockSize
        size == IF blockSize + offset > segSize THEN segSize - offset ELSE blockSize
        fail(e, c) == [err |-> e, value |-> <<>>, nextChunk |-> NoChunk, cache |-> c]
    IN IF chunkOffset >= size THEN fail("EOF", s.cache)
       ELSE LET ok == /\ s.cache.on
                      /\ \E i \in DOMAIN s.cache.entries : s.cache.entries[i].key = blockNumber
            IN IF ~ok /\ offset + size > Len(s.fd) THEN fail("ReadAt", s.cache)
               ELSE LET cache == IF ok THEN cacheGet(s.cache, blockNumber) ELSE s.cache
                        fromFile == SubSeq(s.fd, offset + 1, offset + size)
                                    \o [i \in 1..(blockSize - size) |-> Stale]
                        block == IF ok
                                 THEN cache.entries[Len(cache.entries)].block
                                 ELSE fromFile
                        cached == IF ~ok /\ s.cache.on /\ size = blockSize
                                  THEN cacheAdd(cache, blockNumber, block)
                                  ELSE cache
                    IN IF chunkOffset + chunkHeaderSize > blockSize
                       THEN fail("panic", cached)
                       ELSE LET header == SubSeq(block, chunkOffset + 1,
                                                 chunkOffset + chunkHeaderSize)
                                length == Uint16(SubSeq(header, 5, 6))
                                start == chunkOffset + chunkHeaderSize
                                checksumEnd == start + length
                            IN IF length < 0 \/ checksumEnd > blockSize
                               THEN fail("panic", cached)
                               ELSE LET value == result \o SubSeq(block, start + 1, checksumEnd)
                                        checksum == ChecksumIEEE(SubSeq(block, chunkOffset + 5,
                                                                        checksumEnd))
                                        savedSum == Uint32(SubSeq(header, 1, 4))
                                        chunkType == header[7]
                                    IN IF savedSum # checksum
                                       THEN fail("ErrInvalidCRC", cached)
                                       ELSE IF chunkType \in {ChunkTypeFull, ChunkTypeLast}
                                       THEN [err |-> "nil",
                                             value |-> value,
                                             nextChunk |-> nextChunkAfter(blockNumber,
                                                                          checksumEnd),
                                             cache |-> cached]
                                       ELSE readInternal([s EXCEPT !.cache = cached],
                                                         blockNumber + 1, 0, value)

\* What seg.Read(blockNumber, chunkOffset) returns on segment s.
ReadResult(s, blockNumber, chunkOffset) ==
    readInternal(s, blockNumber, chunkOffset, <<>>)

\* The variables of the peer bookkeeping, which the segment leaves alone.
peerVars == <<now, calls, version, sessionVars, registryVars, pc, call, historyVars>>

\* openSegmentFile on a new file, with a block cache or without one.
OpenSegment ==
    /\ seg \in {openSegmentFile(<<>>, on) : on \in BOOLEAN}
    /\ segReader = NoReader
    /\ written = <<>>
    /\ returned = <<>>
    /\ nextErr = "nil"

\* seg.Write(data), with the data of the next Write in the given length; on a
\* closed segment Write returns ErrClosed and changes nothing.
Write(len) ==
    /\ ~crashed
    /\ ~seg.closed
    /\ Len(written) < MaxWrites
    /\ LET data == Payload(Len(written) + 1, len)
           w == WriteResult(seg, data)
       IN /\ seg' = w.seg
          /\ crashed' = w.panic
          /\ written' = Append(written, [data |-> data, position |-> w.position,
                                         chunks |-> w.chunks])
    /\ UNCHANGED <<segReader, returned, nextErr, peerVars>>

\* seg.Read(position.BlockNumber, position.ChunkOffset) with the position
\* that the i-th Write has returned: the blocks it reads can enter the cache.
Read(i) ==
    /\ ~crashed
    /\ ~seg.closed
    /\ i \in DOMAIN written
    /\ LET r == ReadResult(seg, written[i].position.BlockNumber,
                           written[i].position.ChunkOffset)
       IN /\ seg' = [seg EXCEPT !.cache = r.cache]
          /\ crashed' = (r.err = "panic")
    /\ UNCHANGED <<segReader, written, returned, nextErr, peerVars>>

\* seg.NewReader(): a reader at the start of the segment.
NewReader ==
    /\ ~crashed
    /\ segReader = NoReader
    /\ segReader' = [blockNumber |-> 0, chunkOffset |-> 0]
    /\ UNCHANGED <<crashed, seg, written, returned, nextErr, peerVars>>

\* segReader.Next(): the data at the reader's position with this position,
\* and the reader moves to the next chunk; on an error the reader stays.
ReaderNext ==
    /\ ~crashed
    /\ segReader # NoReader
    /\ ~seg.closed
    /\ Len(returned) <= MaxWrites
    /\ LET r == readInternal(seg, segReader.blockNumber, segReader.chunkOffset, <<>>)
       IN /\ seg' = [seg EXCEPT !.cache = r.cache]
          /\ crashed' = (r.err = "panic")
          /\ nextErr' = r.err
          /\ IF r.err = "nil"
             THEN /\ returned' =
                        Append(returned,
                               [value |-> r.value,
                                position |->
                                    [BlockNumber |-> segReader.blockNumber,
                                     ChunkOffset |-> segReader.chunkOffset,
                                     ChunkSize |->
                                         r.nextChunk.BlockNumber * blockSize
                                         + r.nextChunk.ChunkOffset
                                         - (segReader.blockNumber * blockSize
                                            + segReader.chunkOffset)]])
                  /\ segReader' = [blockNumber |-> r.nextChunk.BlockNumber,
                                   chunkOffset |-> r.nextChunk.ChunkOffset]
             ELSE UNCHANGED <<returned, segReader>>
    /\ UNCHANGED <<written, peerVars>>

\* seg.Close()
Close ==
    /\ ~crashed
    /\ ~seg.closed
    /\ seg' = [seg EXCEPT !.closed = TRUE]
    /\ UNCHANGED <<crashed, segReader, written, returned, nextErr, peerVars>>

\* newPeerSet and newPeerConnection: nothing registered, all flags idle.
InitEmpty ==
    /\ now = 1
    /\ calls = [m \in DOMAIN MaxOf |-> 0]
    /\ crashed = FALSE
    /\ version \in Versions
    /\ NoSegment
    /\ busy = [c \in Sessions |-> [k \in Kinds |-> FALSE]]
    /\ started = [c \in Sessions |-> [k \in Kinds |-> ZeroTime]]
    /\ tracker = [c \in Sessions |-> NoTracker]
    /\ lacking = [c \in Sessions |-> {}]
    /\ plock = [c \in Sessions |-> NoThread]
    /\ peers = [i \in Ids |-> NoConn]
    /\ tracked = {}
    /\ joined = <<>>
    /\ left = <<>>
    /\ pslock = NoLock
    /\ feed = [f \in Feeds |-> NoSubscriber]
    /\ pc = [t \in Threads |-> "idle"]
    /\ call = [t \in Threads |-> NoCall]
    /\ reqs = {}
    /\ tainted = [c \in Sessions |-> [k \in Kinds |-> FALSE]]
    /\ wins = [c \in Sessions |-> [k \in Kinds |-> 0]]
    /\ observed = [c \in Sessions |-> <<>>]
    /\ marked = [c \in Sessions |-> <<>>]

\* All connections have been constructed, c1 and c2 have been admitted by
\* Register, in this order, and nothing else has happened yet: their trackers
\* hold the seeds of an empty tracker set.
Init ==
    /\ now = 1
    /\ calls = [m \in DOMAIN MaxOf |-> 0]
    /\ crashed = FALSE
    /\ version \in Versions
    /\ NoSegment
    /\ busy = [c \in Sessions |-> [k \in Kinds |-> FALSE]]
    /\ started = [c \in Sessions |-> [k \in Kinds |-> ZeroTime]]
    /\ tracker = [c \in Sessions |->
                     IF c \in Conns
                     THEN NewTracker([k \in Kinds |-> 0], rttStartEstimate)
                     ELSE NoTracker]
    /\ lacking = [c \in Sessions |-> {}]
    /\ plock = [c \in Sessions |-> NoThread]
    /\ peers = [i \in Ids |-> IF \E c \in Conns : ConnId[c] = i
                              THEN CHOOSE c \in Conns : ConnId[c] = i
                              ELSE NoConn]
    /\ tracked = {ConnId[c] : c \in Conns}
    /\ joined = <<"c1", "c2">>
    /\ left = <<>>
    /\ pslock = NoLock
    /\ feed = [f \in Feeds |-> NoSubscriber]
    /\ pc = [t \in Threads |-> "idle"]
    /\ call = [t \in Threads |-> NoCall]
    /\ reqs = {}
    /\ tainted = [c \in Sessions |-> [k \in Kinds |-> FALSE]]
    /\ wins = [c \in Sessions |-> [k \in Kinds |-> 0]]
    /\ observed = [c \in Sessions |-> <<>>]
    /\ marked = [c \in Sessions |-> <<>>]

\* A thread may start a method when it is not inside one.
CanRead(t) == /\ ~crashed
              /\ pc[t] = "idle"

CanCall(t, m) == /\ CanRead(t)
                 /\ calls[m] < MaxOf[m]

\* One more invocation of a method of class m.
Count(m) == calls' = [calls EXCEPT ![m] = @ + 1]

\* The method returns to its caller.
Return(t) == /\ pc' = [pc EXCEPT ![t] = "idle"]
             /\ call' = [call EXCEPT ![t] = NoCall]

\* ------------------------------------------------------- rate tracker
\* Tracker.Update(kind, elapsed, items)
Update(tr, k, elapsed, items) ==
    [tr EXCEPT !.capacity[k] = IF items = 0 THEN 0
                               ELSE IF elapsed <= 0 THEN items
                               ELSE items \div elapsed,
               !.roundtrip = IF items = 0 \/ elapsed <= 0 THEN @ ELSE elapsed]

\* Tracker.Capacity(kind, targetRTT)
TrackerCapacity(tr, k, rtt) == 1 + tr.capacity[k] * rtt

RECURSIVE SumOver(_, _)
SumOver(S, f) == IF S = {} THEN 0
                 ELSE LET x == CHOOSE y \in S : TRUE
                      IN f[x] + SumOver(S \ {x}, f)

\* The trackers of the registered connections (Trackers.trackers).
TrackedConns == {c \in Sessions : ConnId[c] \in tracked /\ peers[ConnId[c]] = c}

\* Trackers.MeanCapacities()
MeanCapacities ==
    [k \in Kinds |->
        IF TrackedConns = {} THEN 0
        ELSE SumOver(TrackedConns, [c \in Sessions |-> tracker[c].capacity[k]])
                 \div Cardinality(TrackedConns)]

\* Trackers.MedianRoundTrip(): the round trip with as many at or below it as
\* at or above it; the start value while nothing is tracked.
MedianRoundTrip ==
    IF TrackedConns = {} THEN rttStartEstimate
    ELSE LET rt == [c \in Sessions |-> tracker[c].roundtrip]
             low(c) == Cardinality({d \in TrackedConns : rt[d] < rt[c]})
             high(c) == Cardinality({d \in TrackedConns : rt[d] > rt[c]})
             mid == CHOOSE c \in TrackedConns :
                        /\ 2 * low(c) <= Cardinality(TrackedConns)
                        /\ 2 * high(c) <= Cardinality(TrackedConns)
         IN rt[mid]

\* ------------------------------------------------------------- Fetch*
\* A plain Store(new) in place of the compare-and-swap.
CompareAndSwapBlind(flag, old, new) == [ok |-> TRUE, val |-> new]

\* A compare-and-swap that writes `old` back when the comparison fails.
CompareAndSwapClobber(flag, old, new) ==
    [ok |-> flag = old, val |-> IF flag = old THEN new ELSE old]

\* atomic.Bool.CompareAndSwap(old, new) applied to a flag holding `flag`.
CompareAndSwap(flag, old, new) ==
    [ok |-> flag = old, val |-> IF flag = old THEN new ELSE flag]

\* Fetch* on a connection below the kind's protocol floor: panic.
FetchPanic(t, c, k) ==
    /\ CanRead(t)
    /\ version[c] < Floor(k)
    /\ crashed' = TRUE
    /\ pc' = [pc EXCEPT ![t] = "panicked"]
    /\ call' = [call EXCEPT ![t] = [NoCall EXCEPT !.op = "Fetch", !.c = c, !.k = k]]
    /\ UNCHANGED <<now, calls, version, segVars, sessionVars, registryVars, historyVars>>

\* The flag was won: the request now exists.
FetchWon(t, c, k) ==
    /\ calls["fetch"] < MaxFetches
    /\ Count("fetch")
    /\ pc' = [pc EXCEPT ![t] = "F_time"]
    /\ reqs' = reqs \cup {[id |-> FreshReq, c |-> c, k |-> k, stamp |-> ZeroTime,
                           go |-> 0, sent |-> 0, fin |-> "open"]}
    /\ call' = [call EXCEPT ![t] = [NoCall EXCEPT !.op = "Fetch", !.c = c, !.k = k,
                                       !.r = FreshReq]]
    /\ wins' = [wins EXCEPT ![c][k] = @ + 1]
    /\ UNCHANGED <<started, tainted, observed, marked>>

\* A Fetch that goes on as if it had won the flag whatever the
\* compare-and-swap reported.
FetchIgnoresCAS(t, c, k) == FetchWon(t, c, k)

\* A Fetch that writes the start timestamp before it tests the flag.
FetchLostStamps(t, c, k) ==
    /\ pc' = [pc EXCEPT ![t] = "F_fail"]
    /\ call' = [call EXCEPT ![t] = [NoCall EXCEPT !.op = "Fetch", !.c = c, !.k = k]]
    /\ started' = [started EXCEPT ![c][k] = now]
    /\ UNCHANGED <<calls, historyVars>>

\* "Short circuit if the peer is already fetching": the flag was not won,
\* and what is left of the call is `return errAlreadyFetching`.
FetchLost(t, c, k) ==
    /\ pc' = [pc EXCEPT ![t] = "F_fail"]
    /\ call' = [call EXCEPT ![t] = [NoCall EXCEPT !.op = "Fetch", !.c = c, !.k = k]]
    /\ UNCHANGED <<calls, started, historyVars>>

\* Fetch* on a connection at or above the floor, up to its first access to
\* shared state:
\* if !p.xIdle.CompareAndSwap(false, true) { return errAlreadyFetching }
FetchCAS(t, c, k) ==
    /\ CanRead(t)
    /\ version[c] >= Floor(k)
    /\ LET cas == CompareAndSwap(busy[c][k], FALSE, TRUE)
       IN /\ busy' = [busy EXCEPT ![c][k] = cas.val]
          /\ IF cas.ok THEN FetchWon(t, c, k) ELSE FetchLost(t, c, k)
    /\ UNCHANGED <<now, crashed, version, segVars, tracker, lacking, plock, registryVars, marked>>

\* return errAlreadyFetching
FetchFail(t) ==
    /\ ~crashed
    /\ pc[t] = "F_fail"
    /\ Return(t)
    /\ UNCHANGED <<now, calls, crashed, version, segVars, sessionVars, registryVars,
                   historyVars>>

\* A Fetch that goes on to the dispatch without writing the timestamp.
FetchStampSkips(t) ==
    /\ ~crashed
    /\ pc[t] = "F_time"
    /\ pc' = [pc EXCEPT ![t] = "F_go"]
    /\ UNCHANGED <<now, calls, crashed, version, segVars, sessionVars, registryVars,
                   call, historyVars>>

\* A Fetch of any kind that writes its time to p.headerStarted.
FetchStampHeaders(t) ==
    /\ ~crashed
    /\ pc[t] = "F_time"
    /\ started' = [started EXCEPT ![call[t].c]["headers"] = now]
    /\ now' = now + 1
    /\ reqs' = SetReq([Req(call[t].r) EXCEPT !.stamp = now])
    /\ pc' = [pc EXCEPT ![t] = "F_go"]
    /\ UNCHANGED <<calls, crashed, version, segVars, busy, tracker, lacking, plock,
                   registryVars, call, tainted, wins, observed, marked>>

\* p.xStarted = time.Now()
FetchStamp(t) ==
    /\ ~crashed
    /\ pc[t] = "F_time"
    /\ started' = [started EXCEPT ![call[t].c][call[t].k] = now]
    /\ now' = now + 1
    /\ reqs' = SetReq([Req(call[t].r) EXCEPT !.stamp = now])
    /\ pc' = [pc EXCEPT ![t] = "F_go"]
    /\ UNCHANGED <<calls, crashed, version, segVars, busy, tracker, lacking, plock,
                   registryVars, call, tainted, wins, observed, marked>>

\* go p.peer.RequestX(...): the request is handed to a new goroutine.
FetchDispatch(t) ==
    /\ ~crashed
    /\ pc[t] = "F_go"
    /\ reqs' = SetReq([Req(call[t].r) EXCEPT !.go = @ + 1])
    /\ pc' = [pc EXCEPT ![t] = "F_ret"]
    /\ UNCHANGED <<now, calls, crashed, version, segVars, sessionVars, registryVars,
                   call, tainted, wins, observed, marked>>

\* A Fetch that calls p.peer.RequestX itself and returns when that call has
\* been made.
FetchReturnWaits(t) ==
    /\ ~crashed
    /\ pc[t] = "F_ret"
    /\ \E q \in reqs : q.id = call[t].r /\ q.sent > 0
    /\ Return(t)
    /\ UNCHANGED <<now, calls, crashed, version, segVars, sessionVars, registryVars,
                   historyVars>>

\* return nil
FetchReturn(t) ==
    /\ ~crashed
    /\ pc[t] = "F_ret"
    /\ Return(t)
    /\ UNCHANGED <<now, calls, crashed, version, segVars, sessionVars, registryVars,
                   historyVars>>

\* The goroutine runs and calls p.peer.RequestX: the request reaches the
\* transport.  Nothing waits for this call to return.
GoRequest(r) ==
    /\ ~crashed
    /\ r \in LiveReqs
    /\ Req(r).sent < Req(r).go
    /\ reqs' = SetReq([Req(r) EXCEPT !.sent = @ + 1])
    /\ UNCHANGED <<now, calls, crashed, version, segVars, sessionVars, registryVars,
                   pc, call, tainted, wins, observed, marked>>

\* ------------------------------------------------------------ Set*Idle
\* A Set*Idle that measures every kind from p.headerStarted.
StartedReadHeaders(c, k) == {started[c]["headers"]}

\* What a Set*Idle reads from p.xStarted.  The field is read and written
\* without a lock: a read racing with the write of a Fetch that is about to
\* stamp it may see the old or the new value.
StartedRead(c, k) ==
    {started[c][k]} \cup
    {now : u \in {v \in Threads : pc[v] = "F_time" /\ call[v].c = c /\ call[v].k = k}}

\* The Fetch that made request r has returned to its caller.
Returned(r) == \A t \in Threads : call[t].op = "Fetch" => call[t].r # r

\* Set*Idle(delivered, deliveryTime) is invoked for request r, once the reply
\* to r or its timeout has been observed, with the current time; up to
\* p.rates.Update(kind, deliveryTime.Sub(p.xStarted), delivered)
SetIdleUpdate(t, r, n) ==
    /\ CanRead(t)
    /\ r \in LiveReqs
    /\ Req(r).fin = "open"
    /\ Req(r).sent > 0 \/ Returned(r)
    /\ n \in 0..MaxDelivered
    /\ ~tracker[Req(r).c].nil
    /\ reqs' = SetReq([Req(r) EXCEPT !.fin = "closing"])
    /\ \E st \in StartedRead(Req(r).c, Req(r).k) :
          /\ tracker' = [tracker EXCEPT ![Req(r).c] = Update(@, Req(r).k, now - st, n)]
          /\ observed' = [observed EXCEPT ![Req(r).c] =
                 Append(@, [kind |-> Req(r).k, elapsed |-> now - st, items |-> n])]
    /\ call' = [call EXCEPT ![t] = [NoCall EXCEPT !.op = "SetIdle", !.c = Req(r).c,
                                       !.k = Req(r).k, !.r = r, !.n = n]]
    /\ pc' = [pc EXCEPT ![t] = "S_store"]
    /\ UNCHANGED <<now, calls, crashed, version, segVars, busy, started, lacking, plock,
                   registryVars, tainted, wins, marked>>

\* Set*Idle on a connection that was never registered: p.rates is nil, and
\* p.rates.Update panics.
SetIdleNil(t, r) ==
    /\ CanRead(t)
    /\ r \in LiveReqs
    /\ Req(r).fin = "open"
    /\ Req(r).sent > 0 \/ Returned(r)
    /\ tracker[Req(r).c].nil
    /\ crashed' = TRUE
    /\ call' = [call EXCEPT ![t] = [NoCall EXCEPT !.op = "SetIdle", !.c = Req(r).c,
                                       !.k = Req(r).k, !.r = r]]
    /\ pc' = [pc EXCEPT ![t] = "panicked"]
    /\ UNCHANGED <<now, calls, version, segVars, sessionVars, registryVars, historyVars>>

\* A Set*Idle that returns without clearing the flag.
SetIdleStoreKeeps(t) ==
    /\ ~crashed
    /\ pc[t] = "S_store"
    /\ wins' = [wins EXCEPT ![call[t].c][call[t].k] = 0]
    /\ tainted' = [tainted EXCEPT ![call[t].c][call[t].k] =
                      @ /\ Won(call[t].c, call[t].k) \ {call[t].r} # {}]
    /\ reqs' = {q \in reqs : q.id # call[t].r}
    /\ Return(t)
    /\ UNCHANGED <<now, calls, crashed, version, segVars, sessionVars, registryVars,
                   observed, marked>>

\* p.xIdle.Store(false); the request is complete.
SetIdleStore(t) ==
    /\ ~crashed
    /\ pc[t] = "S_store"
    /\ LET c == call[t].c
           k == call[t].k
       IN /\ busy' = [busy EXCEPT ![c][k] = FALSE]
          /\ wins' = [wins EXCEPT ![c][k] = 0]
          /\ tainted' = [tainted EXCEPT ![c][k] =
                            @ /\ Won(c, k) \ {call[t].r} # {}]
    /\ reqs' = {q \in reqs : q.id # call[t].r}
    /\ Return(t)
    /\ UNCHANGED <<now, calls, crashed, version, segVars, started, tracker, lacking, plock,
                   registryVars, observed, marked>>

\* --------------------------------------------------------------- Reset
\* The connections in ps.peers.
Registered == {c \in Sessions : peers[ConnId[c]] = c}

\* ps.lock.Lock() returns when no thread holds the lock, ps.lock.RLock() when
\* no writer holds it.
WriteFree == pslock.w = NoThread /\ pslock.r = {}
ReadFree == pslock.w = NoThread

\* The effect of p.xIdle.Store(false) in Reset on the flag of kind k.
ResetFlag(c, k) ==
    /\ busy' = [busy EXCEPT ![c][k] = FALSE]
    /\ wins' = [wins EXCEPT ![c][k] = 0]
    /\ tainted' = [tainted EXCEPT ![c][k] = @ \/ Won(c, k) # {}]

\* p.lock.Lock(); p.headerIdle.Store(false)
ResetCall(t, c) ==
    /\ CanCall(t, "reset")
    /\ plock[c] = NoThread
    /\ Count("reset")
    /\ plock' = [plock EXCEPT ![c] = t]
    /\ ResetFlag(c, KindOrder[1])
    /\ call' = [call EXCEPT ![t] = [NoCall EXCEPT !.op = "Reset", !.c = c, !.n = 2]]
    /\ pc' = [pc EXCEPT ![t] = "R_store"]
    /\ UNCHANGED <<now, crashed, version, segVars, started, tracker, lacking,
                   registryVars, reqs, observed, marked>>

\* p.blockIdle.Store(false); p.receiptIdle.Store(false)
ResetStore(t) ==
    /\ ~crashed
    /\ pc[t] = "R_store"
    /\ call[t].n < Len(KindOrder)
    /\ ResetFlag(call[t].c, KindOrder[call[t].n])
    /\ call' = [call EXCEPT ![t].n = @ + 1]
    /\ UNCHANGED <<now, calls, crashed, version, segVars, started, tracker, lacking, plock,
                   registryVars, pc, reqs, observed, marked>>

\* A Reset that clears the flags and keeps the lacking set.
ResetLastKeepsLacking(t) ==
    /\ ~crashed
    /\ pc[t] = "R_store"
    /\ call[t].n = Len(KindOrder)
    /\ ResetFlag(call[t].c, KindOrder[call[t].n])
    /\ plock' = [plock EXCEPT ![call[t].c] = NoThread]
    /\ Return(t)
    /\ UNCHANGED <<now, calls, crashed, version, segVars, started, tracker, lacking,
                   registryVars, reqs, observed, marked>>

\* p.stateIdle.Store(false); p.lacking = make(map[common.Hash]struct{}); the
\* deferred p.lock.Unlock()
ResetLast(t) ==
    /\ ~crashed
    /\ pc[t] = "R_store"
    /\ call[t].n = Len(KindOrder)
    /\ ResetFlag(call[t].c, KindOrder[call[t].n])
    /\ lacking' = [lacking EXCEPT ![call[t].c] = {}]
    /\ marked' = [marked EXCEPT ![call[t].c] = <<>>]
    /\ plock' = [plock EXCEPT ![call[t].c] = NoThread]
    /\ IF call[t].op = "Reset"
       THEN Return(t)
       ELSE /\ pc' = [pc EXCEPT ![t] = "PR_next"]
            /\ call' = [call EXCEPT ![t].c = NoConn, ![t].n = 0]
    /\ UNCHANGED <<now, calls, crashed, version, segVars, started, tracker,
                   registryVars, reqs, observed>>

\* A peerSet.Reset that visits no peer.
PsResetCallVisitsNone(t) ==
    /\ CanCall(t, "reset")
    /\ ReadFree
    /\ Count("reset")
    /\ pslock' = [pslock EXCEPT !.r = @ \cup {t}]
    /\ call' = [call EXCEPT ![t] = [NoCall EXCEPT !.op = "PsReset"]]
    /\ pc' = [pc EXCEPT ![t] = "PR_next"]
    /\ UNCHANGED <<now, crashed, version, segVars, sessionVars, peers, tracked, joined,
                   left, feed, historyVars>>

\* peerSet.Reset(): ps.lock.RLock(), and the loop over ps.peers begins.
PsResetCall(t) ==
    /\ CanCall(t, "reset")
    /\ ReadFree
    /\ Count("reset")
    /\ pslock' = [pslock EXCEPT !.r = @ \cup {t}]
    /\ call' = [call EXCEPT ![t] = [NoCall EXCEPT !.op = "PsReset",
                                       !.rest = Registered]]
    /\ pc' = [pc EXCEPT ![t] = "PR_next"]
    /\ UNCHANGED <<now, crashed, version, segVars, sessionVars, peers, tracked, joined,
                   left, feed, historyVars>>

\* for _, peer := range ps.peers { peer.Reset() }: the next peer, whichever
\* the map traversal yields, up to its p.headerIdle.Store(false).
PsResetPeer(t, c) ==
    /\ ~crashed
    /\ pc[t] = "PR_next"
    /\ c \in call[t].rest
    /\ plock[c] = NoThread
    /\ plock' = [plock EXCEPT ![c] = t]
    /\ ResetFlag(c, KindOrder[1])
    /\ call' = [call EXCEPT ![t].c = c, ![t].n = 2, ![t].rest = @ \ {c}]
    /\ pc' = [pc EXCEPT ![t] = "R_store"]
    /\ UNCHANGED <<now, calls, crashed, version, segVars, started, tracker, lacking,
                   registryVars, reqs, observed, marked>>

\* The loop has visited every peer: the deferred ps.lock.RUnlock().
PsResetDone(t) ==
    /\ ~crashed
    /\ pc[t] = "PR_next"
    /\ call[t].rest = {}
    /\ pslock' = [pslock EXCEPT !.r = @ \ {t}]
    /\ Return(t)
    /\ UNCHANGED <<now, calls, crashed, version, segVars, sessionVars, peers, tracked,
                   joined, left, feed, historyVars>>

\* ------------------------------------------------- MarkLacking, Lacks
\* An eviction that empties a full lacking set.
EvictedAll(set) ==
    IF Cardinality(set) >= maxLackingHashes THEN {{}} ELSE {set}

\* What the eviction loop of MarkLacking can leave of a lacking set: it drops
\* one entry, whichever the map traversal meets first, while the set is full.
Evicted(set) ==
    {kept \in SUBSET set :
        Cardinality(kept) = IF Cardinality(set) >= maxLackingHashes
                            THEN maxLackingHashes - 1
                            ELSE Cardinality(set)}

\* A MarkLacking that inserts without evicting.
MarkLackingKeepsAll(t, c, h) ==
    /\ CanCall(t, "mark")
    /\ plock[c] = NoThread
    /\ Count("mark")
    /\ lacking' = [lacking EXCEPT ![c] = @ \cup {h}]
    /\ marked' = [marked EXCEPT ![c] = Append(@, [hash |-> h, met |-> lacking[c]])]
    /\ Return(t)
    /\ UNCHANGED <<now, crashed, version, segVars, busy, started, tracker, plock,
                   registryVars, reqs, tainted, wins, observed>>

\* A MarkLacking that evicts and then inserts the hash only when it was not in
\* the set.
MarkLackingSkipsKnown(t, c, h) ==
    /\ CanCall(t, "mark")
    /\ plock[c] = NoThread
    /\ Count("mark")
    /\ \E kept \in Evicted(lacking[c]) :
          lacking' = [lacking EXCEPT ![c] =
                         IF h \in lacking[c] THEN kept ELSE kept \cup {h}]
    /\ marked' = [marked EXCEPT ![c] = Append(@, [hash |-> h, met |-> lacking[c]])]
    /\ Return(t)
    /\ UNCHANGED <<now, crashed, version, segVars, busy, started, tracker, plock,
                   registryVars, reqs, tainted, wins, observed>>

\* A MarkLacking that clears the activity flags as Reset does.
MarkLackingResets(t, c, h) ==
    /\ CanCall(t, "mark")
    /\ plock[c] = NoThread
    /\ Count("mark")
    /\ lacking' = [lacking EXCEPT ![c] = {h}]
    /\ busy' = [busy EXCEPT ![c] = [k \in Kinds |-> FALSE]]
    /\ Return(t)
    /\ UNCHANGED <<now, crashed, version, segVars, started, tracker, plock,
                   registryVars, historyVars>>

\* MarkLacking(hash): under the write lock, evict while full, then insert.
MarkLacking(t, c, h) ==
    /\ CanCall(t, "mark")
    /\ plock[c] = NoThread
    /\ Count("mark")
    /\ \E kept \in Evicted(lacking[c]) :
          lacking' = [lacking EXCEPT ![c] = kept \cup {h}]
    /\ marked' = [marked EXCEPT ![c] = Append(@, [hash |-> h, met |-> lacking[c]])]
    /\ Return(t)
    /\ UNCHANGED <<now, crashed, version, segVars, busy, started, tracker, plock,
                   registryVars, reqs, tainted, wins, observed>>

\* A Lacks that finds every hash.
LacksResultAlways(c, h) == TRUE

\* What Lacks(hash) returns on connection c.
LacksResult(c, h) == h \in lacking[c]

\* Lacks takes the read lock, looks the hash up and changes nothing.
Lacks(t, c, h) ==
    /\ CanRead(t)
    /\ plock[c] = NoThread
    /\ LacksResult(c, h) \in BOOLEAN
    /\ UNCHANGED vars

\* ------------------------------------------------------------ Capacity
\* MaxHeaderFetch, MaxBlockFetch, MaxReceiptFetch, MaxStateFetch, scaled down.
MaxFetchOf == [headers |-> 2, bodies |-> 2, receipts |-> 3, state |-> 3]

\* A capacity that is the tracker's estimate, whatever the kind's maximum.
CapacityResultUnclamped(c, k, targetRTT) ==
    TrackerCapacity(tracker[c], k, targetRTT)

\* What HeaderCapacity, BlockCapacity, ReceiptCapacity and NodeDataCapacity
\* return: the tracker's estimate, cut to the kind's maximum.
CapacityResult(c, k, targetRTT) ==
    LET cap == TrackerCapacity(tracker[c], k, targetRTT)
    IN IF cap > MaxFetchOf[k] THEN MaxFetchOf[k] ELSE cap

\* *Capacity(targetRTT) reads p.rates and changes nothing.
Capacity(t, c, k) ==
    /\ CanRead(t)
    /\ ~tracker[c].nil
    /\ CapacityResult(c, k, 1) \in Nat
    /\ UNCHANGED vars

\* *Capacity on a connection that was never registered: p.rates is nil, and
\* p.rates.Capacity panics.
CapacityNil(t, c, k) ==
    /\ CanRead(t)
    /\ tracker[c].nil
    /\ crashed' = TRUE
    /\ pc' = [pc EXCEPT ![t] = "panicked"]
    /\ call' = [call EXCEPT ![t] = [NoCall EXCEPT !.op = "Capacity", !.c = c, !.k = k]]
    /\ UNCHANGED <<now, calls, version, segVars, sessionVars, registryVars, historyVars>>

\* ------------------------------------------------------------ registry
\* Feed.Send(p): the value is put into the subscriber's channel when there is
\* a subscriber and its channel has room, and is dropped otherwise; the sender
\* does not wait for the subscriber.
FeedSend(fd, p) ==
    IF fd.on /\ Len(fd.ch) < ChanCap THEN [fd EXCEPT !.ch = Append(@, p)] ELSE fd

\* SubscribeNewPeers(ch), SubscribePeerDrops(ch): ch is attached to the feed.
\* The subscriber never receives from ch.
Subscribe(t, f) ==
    /\ CanRead(t)
    /\ ~feed[f].on
    /\ feed' = [feed EXCEPT ![f].on = TRUE]
    /\ UNCHANGED <<now, calls, crashed, version, segVars, sessionVars, peers, tracked,
                   joined, left, pslock, pc, call, historyVars>>

\* A Register that does not look the id up and replaces the peer it finds
\* registered under it.
RegisterDupReplaces(t, c) ==
    /\ CanCall(t, "reg")
    /\ WriteFree
    /\ peers[ConnId[c]] # NoConn
    /\ Count("reg")
    /\ pslock' = [pslock EXCEPT !.w = t]
    /\ call' = [call EXCEPT ![t] = [NoCall EXCEPT !.op = "Register", !.c = c,
                                       !.id = ConnId[c]]]
    /\ pc' = [pc EXCEPT ![t] = "Reg_insert"]
    /\ UNCHANGED <<now, crashed, version, segVars, sessionVars, peers, tracked, joined,
                   left, feed, historyVars>>

\* A Register that seeds p.rates before it looks the id up.
RegisterDupSeeds(t, c) ==
    /\ CanCall(t, "reg")
    /\ WriteFree
    /\ peers[ConnId[c]] # NoConn
    /\ Count("reg")
    /\ tracker' = [tracker EXCEPT ![c] = NewTracker(MeanCapacities, MedianRoundTrip)]
    /\ call' = [call EXCEPT ![t] = [NoCall EXCEPT !.op = "Register", !.c = c,
                                       !.id = ConnId[c]]]
    /\ pc' = [pc EXCEPT ![t] = "Reg_fail"]
    /\ UNCHANGED <<now, crashed, version, segVars, busy, started, lacking, plock,
                   registryVars, historyVars>>

\* Register of an id that is in ps.peers: Lock, the lookup, Unlock; what is
\* left of the call is `return errAlreadyRegistered`.
RegisterDup(t, c) ==
    /\ CanCall(t, "reg")
    /\ WriteFree
    /\ peers[ConnId[c]] # NoConn
    /\ Count("reg")
    /\ call' = [call EXCEPT ![t] = [NoCall EXCEPT !.op = "Register", !.c = c,
                                       !.id = ConnId[c]]]
    /\ pc' = [pc EXCEPT ![t] = "Reg_fail"]
    /\ UNCHANGED <<now, crashed, version, segVars, sessionVars, registryVars, historyVars>>

\* return errAlreadyRegistered (or the error of Track)
RegisterFail(t) ==
    /\ ~crashed
    /\ pc[t] = "Reg_fail"
    /\ Return(t)
    /\ UNCHANGED <<now, calls, crashed, version, segVars, sessionVars, registryVars,
                   historyVars>>

\* Register of an id that is not in ps.peers: Lock and the lookup; the lock
\* stays held.
RegisterNew(t, c) ==
    /\ CanCall(t, "reg")
    /\ WriteFree
    /\ peers[ConnId[c]] = NoConn
    /\ Count("reg")
    /\ pslock' = [pslock EXCEPT !.w = t]
    /\ call' = [call EXCEPT ![t] = [NoCall EXCEPT !.op = "Register", !.c = c,
                                       !.id = ConnId[c]]]
    /\ pc' = [pc EXCEPT ![t] = "Reg_track"]
    /\ UNCHANGED <<now, crashed, version, segVars, sessionVars, peers, tracked, joined,
                   left, feed, historyVars>>

\* A Register that seeds the tracker only after it has tracked it, so that
\* the new tracker's zero values enter its own seed.
RegisterTrackSeedsLate(t) ==
    /\ ~crashed
    /\ pc[t] = "Reg_track"
    /\ LET c == call[t].c
           n == Cardinality(TrackedConns) + 1
       IN /\ tracker' = [tracker EXCEPT ![c] =
                 NewTracker([k \in Kinds |-> (MeanCapacities[k] * (n - 1)) \div n],
                            MedianRoundTrip)]
          /\ tracked' = tracked \cup {ConnId[c]}
          /\ pc' = [pc EXCEPT ![t] = "Reg_insert"]
    /\ UNCHANGED <<now, calls, crashed, version, segVars, busy, started, lacking, plock,
                   peers, joined, left, pslock, feed, call, historyVars>>

\* p.rates = msgrate.NewTracker(ps.rates.MeanCapacities(),
\* ps.rates.MedianRoundTrip()); ps.rates.Track(p.id, p.rates), which fails when
\* the id is tracked already: Unlock, and what is left is `return err`.
RegisterTrack(t) ==
    /\ ~crashed
    /\ pc[t] = "Reg_track"
    /\ LET c == call[t].c
       IN /\ tracker' = [tracker EXCEPT ![c] =
                            NewTracker(MeanCapacities, MedianRoundTrip)]
          /\ IF ConnId[c] \in tracked
             THEN /\ pslock' = NoLock
                  /\ pc' = [pc EXCEPT ![t] = "Reg_fail"]
                  /\ UNCHANGED tracked
             ELSE /\ tracked' = tracked \cup {ConnId[c]}
                  /\ pc' = [pc EXCEPT ![t] = "Reg_insert"]
                  /\ UNCHANGED pslock
    /\ UNCHANGED <<now, calls, crashed, version, segVars, busy, started, lacking, plock,
                   peers, joined, left, feed, call, historyVars>>

\* A Register that publishes the event before it unlocks.
RegisterInsertKeepsLock(t) ==
    /\ ~crashed
    /\ pc[t] = "Reg_insert"
    /\ peers' = [peers EXCEPT ![ConnId[call[t].c]] = call[t].c]
    /\ pc' = [pc EXCEPT ![t] = "Reg_send"]
    /\ UNCHANGED <<now, calls, crashed, version, segVars, sessionVars, tracked, joined,
                   left, pslock, feed, call, historyVars>>

\* ps.peers[p.id] = p; ps.lock.Unlock()
RegisterInsert(t) ==
    /\ ~crashed
    /\ pc[t] = "Reg_insert"
    /\ peers' = [peers EXCEPT ![ConnId[call[t].c]] = call[t].c]
    /\ pslock' = NoLock
    /\ pc' = [pc EXCEPT ![t] = "Reg_send"]
    /\ UNCHANGED <<now, calls, crashed, version, segVars, sessionVars, tracked, joined,
                   left, feed, call, historyVars>>

\* ps.newPeerFeed.Send(p); return nil
RegisterSend(t) ==
    /\ ~crashed
    /\ pc[t] = "Reg_send"
    /\ joined' = Append(joined, call[t].c)
    /\ feed' = [feed EXCEPT !["joined"] = FeedSend(@, call[t].c)]
    /\ Return(t)
    /\ UNCHANGED <<now, calls, crashed, version, segVars, sessionVars, peers, tracked, left,
                   pslock, historyVars>>

\* An Unregister that publishes a departure also for an id it did not find.
UnregisterUnknownSends(t, id) ==
    /\ CanCall(t, "reg")
    /\ WriteFree
    /\ peers[id] = NoConn
    /\ Count("reg")
    /\ call' = [call EXCEPT ![t] = [NoCall EXCEPT !.op = "Unregister", !.id = id,
                                       !.c = CHOOSE c \in Sessions : ConnId[c] = id]]
    /\ pc' = [pc EXCEPT ![t] = "Unreg_send"]
    /\ UNCHANGED <<now, crashed, version, segVars, sessionVars, registryVars, historyVars>>

\* Unregister of an id that is not in ps.peers: Lock, the lookup, Unlock; what
\* is left of the call is `return errNotRegistered`.
UnregisterUnknown(t, id) ==
    /\ CanCall(t, "reg")
    /\ WriteFree
    /\ peers[id] = NoConn
    /\ Count("reg")
    /\ call' = [call EXCEPT ![t] = [NoCall EXCEPT !.op = "Unregister", !.id = id]]
    /\ pc' = [pc EXCEPT ![t] = "Unreg_fail"]
    /\ UNCHANGED <<now, crashed, version, segVars, sessionVars, registryVars, historyVars>>

\* return errNotRegistered
UnregisterFail(t) ==
    /\ ~crashed
    /\ pc[t] = "Unreg_fail"
    /\ Return(t)
    /\ UNCHANGED <<now, calls, crashed, version, segVars, sessionVars, registryVars,
                   historyVars>>

\* An Unregister that leaves the peer in ps.peers.
UnregisterKnownKeeps(t, id) ==
    /\ CanCall(t, "reg")
    /\ WriteFree
    /\ peers[id] # NoConn
    /\ Count("reg")
    /\ call' = [call EXCEPT ![t] = [NoCall EXCEPT !.op = "Unregister", !.id = id,
                                       !.c = peers[id]]]
    /\ pslock' = [pslock EXCEPT !.w = t]
    /\ pc' = [pc EXCEPT ![t] = "Unreg_untrack"]
    /\ UNCHANGED <<now, crashed, version, segVars, sessionVars, peers, tracked, joined,
                   left, feed, historyVars>>

\* An Unregister that also clears the flags of the peer it removes.
UnregisterKnownResets(t, id) ==
    /\ CanCall(t, "reg")
    /\ WriteFree
    /\ peers[id] # NoConn
    /\ Count("reg")
    /\ call' = [call EXCEPT ![t] = [NoCall EXCEPT !.op = "Unregister", !.id = id,
                                       !.c = peers[id]]]
    /\ peers' = [peers EXCEPT ![id] = NoConn]
    /\ busy' = [busy EXCEPT ![peers[id]] = [k \in Kinds |-> FALSE]]
    /\ pslock' = [pslock EXCEPT !.w = t]
    /\ pc' = [pc EXCEPT ![t] = "Unreg_untrack"]
    /\ UNCHANGED <<now, crashed, version, segVars, started, tracker, lacking, plock,
                   tracked, joined, left, feed, historyVars>>

\* Unregister of a registered id: Lock, the lookup, delete(ps.peers, id); the
\* lock stays held.
UnregisterKnown(t, id) ==
    /\ CanCall(t, "reg")
    /\ WriteFree
    /\ peers[id] # NoConn
    /\ Count("reg")
    /\ call' = [call EXCEPT ![t] = [NoCall EXCEPT !.op = "Unregister", !.id = id,
                                       !.c = peers[id]]]
    /\ peers' = [peers EXCEPT ![id] = NoConn]
    /\ pslock' = [pslock EXCEPT !.w = t]
    /\ pc' = [pc EXCEPT ![t] = "Unreg_untrack"]
    /\ UNCHANGED <<now, crashed, version, segVars, sessionVars, tracked, joined, left,
                   feed, historyVars>>

\* An Unregister that returns with ps.lock still locked.
UnregisterUntrackKeepsLock(t) ==
    /\ ~crashed
    /\ pc[t] = "Unreg_untrack"
    /\ tracked' = tracked \ {call[t].id}
    /\ pc' = [pc EXCEPT ![t] = "Unreg_send"]
    /\ UNCHANGED <<now, calls, crashed, version, segVars, sessionVars, peers, joined, left,
                   pslock, feed, call, historyVars>>

\* An Unregister that leaves the tracker in the aggregate collection.
UnregisterUntrackForgets(t) ==
    /\ ~crashed
    /\ pc[t] = "Unreg_untrack"
    /\ pslock' = NoLock
    /\ pc' = [pc EXCEPT ![t] = "Unreg_send"]
    /\ UNCHANGED <<now, calls, crashed, version, segVars, sessionVars, peers, tracked,
                   joined, left, feed, call, historyVars>>

\* ps.rates.Untrack(id); ps.lock.Unlock()
UnregisterUntrack(t) ==
    /\ ~crashed
    /\ pc[t] = "Unreg_untrack"
    /\ tracked' = tracked \ {call[t].id}
    /\ pslock' = NoLock
    /\ pc' = [pc EXCEPT ![t] = "Unreg_send"]
    /\ UNCHANGED <<now, calls, crashed, version, segVars, sessionVars, peers, joined, left,
                   feed, call, historyVars>>

\* An Unregister that returns without publishing the departure.
UnregisterSendSkips(t) ==
    /\ ~crashed
    /\ pc[t] = "Unreg_send"
    /\ Return(t)
    /\ UNCHANGED <<now, calls, crashed, version, segVars, sessionVars, registryVars,
                   historyVars>>

\* ps.peerDropFeed.Send(p); return nil
UnregisterSend(t) ==
    /\ ~crashed
    /\ pc[t] = "Unreg_send"
    /\ left' = Append(left, call[t].c)
    /\ feed' = [feed EXCEPT !["left"] = FeedSend(@, call[t].c)]
    /\ Return(t)
    /\ UNCHANGED <<now, calls, crashed, version, segVars, sessionVars, peers, tracked, joined,
                   pslock, historyVars>>

\* What Peer(id) and Len() return.
PeerResult(id) == peers[id]
LenResult == Cardinality({i \in Ids : peers[i] # NoConn})

\* What AllPeers() can return: the values of ps.peers in the order of a
\* traversal of the map.
AllPeersResult ==
    LET values == {peers[i] : i \in {j \in Ids : peers[j] # NoConn}}
    IN {q \in [1..LenResult -> values] : \A c \in values : \E i \in DOMAIN q : q[i] = c}

\* Peer(id), Len(), AllPeers(): reads under the read lock.
Lookup(t) ==
    /\ CanRead(t)
    /\ ReadFree
    /\ \A id \in Ids : PeerResult(id) \in Sessions \cup {NoConn}
    /\ LenResult \in Nat
    /\ AllPeersResult # {}
    /\ UNCHANGED vars

\* ----------------------------------------------------------- idle peers
\* The message kind whose capacity each *IdlePeers query ranks by.
ThroughputKind(k) == IF k = "receipts" THEN "state" ELSE k

\* peerCapacitySort.Less(i, j): the capacity at i is the higher one.
Less(ps, i, j) == ps.tp[i] > ps.tp[j]

\* A Swap that exchanges the peers and leaves their capacities in place.
SwapPeersOnly(ps, i, j) ==
    [ps EXCEPT !.p = [@ EXCEPT ![i] = ps.p[j], ![j] = ps.p[i]]]

\* peerCapacitySort.Swap(i, j): exchanges the peers and their capacities.
Swap(ps, i, j) ==
    [p |-> [ps.p EXCEPT ![i] = ps.p[j], ![j] = ps.p[i]],
     tp |-> [ps.tp EXCEPT ![i] = ps.tp[j], ![j] = ps.tp[i]]]

\* The inner loop of the insertion sort: the element at j moves down while it
\* is Less than the one before it.
RECURSIVE insertDown(_, _)
insertDown(ps, j) ==
    IF j > 1 /\ Less(ps, j, j - 1)
    THEN insertDown(Swap(ps, j, j - 1), j - 1)
    ELSE ps

\* The outer loop of the insertion sort, from position i on.
RECURSIVE insertionSort(_, _)
insertionSort(ps, i) ==
    IF i > Len(ps.p) THEN ps
    ELSE insertionSort(insertDown(ps, i), i + 1)

\* sort.Sort(sortPeers): on the few peers of this model the library sorts by
\* insertion, through Len, Less and Swap alone.
Sort(ps) == insertionSort(ps, 2)

\* The orders in which a traversal of the map ps.peers can append the peers
\* of a set to the slice idle.
Traversals(S) ==
    {q \in [1..Cardinality(S) -> S] : \A c \in S : \E i \in DOMAIN q : q[i] = c}

\* The closure throughput of the query of kind k, applied to peer c.
throughput(c, k) == TrackerCapacity(tracker[c], ThroughputKind(k), 1)

\* An idlePeers that counts a peer only when it is idle.
idlePeersCountsIdle(minProtocol, maxProtocol, k) ==
    LET eligible == {c \in Registered : /\ version[c] >= minProtocol
                                        /\ version[c] <= maxProtocol}
        idle == {c \in eligible : ~busy[c][k]}
        sortPeers(q) == [p |-> q, tp |-> [i \in DOMAIN q |-> throughput(q[i], k)]]
    IN {[list |-> Sort(sortPeers(q)).p, total |-> Cardinality(idle)] :
           q \in Traversals(idle)}

\* What ps.idlePeers(minProtocol, maxProtocol, idleCheck, capacity) can return
\* with the idleCheck and the capacity of kind k: the peers in range are
\* counted, the idle ones of them are collected with their capacities in the
\* order of the traversal, and the two slices are sorted together.
idlePeers(minProtocol, maxProtocol, k) ==
    LET eligible == {c \in Registered : /\ version[c] >= minProtocol
                                        /\ version[c] <= maxProtocol}
        idle == {c \in eligible : ~busy[c][k]}
        sortPeers(q) == [p |-> q, tp |-> [i \in DOMAIN q |-> throughput(q[i], k)]]
    IN {[list |-> Sort(sortPeers(q)).p, total |-> Cardinality(eligible)] :
           q \in Traversals(idle)}

\* A query that accepts every protocol version up to the highest.
IdlePeersResultAnyVersion(k) == idlePeers(0, idleMaxProtocol, k)

\* What ps.idlePeers(63, 65, idle, throughput) can return for kind k.
IdlePeersResult(k) == idlePeers(idleMinProtocol, idleMaxProtocol, k)

\* HeaderIdlePeers, BodyIdlePeers, ReceiptIdlePeers, NodeDataIdlePeers: under
\* the read lock, and changing nothing.
IdlePeers(t, k) ==
    /\ CanRead(t)
    /\ ReadFree
    /\ IdlePeersResult(k) # {}
    /\ UNCHANGED vars

\* ---------------------------------------------------------------- specs
\* Time passes while nothing else happens.
Tick ==
    /\ ~crashed
    /\ now < MaxTime
    /\ now' = now + 1
    /\ UNCHANGED <<calls, crashed, version, segVars, sessionVars, registryVars, pc, call,
                   historyVars>>

\* The hashes the threads mark and look up.
SpecHashes == {"h1"}

\* Threads that fetch, complete their requests and reset the connections.
Next ==
    \/ \E t \in Threads, c \in Conns, k \in Kinds : FetchPanic(t, c, k)
    \/ \E t \in Threads, c \in Conns, k \in Kinds : FetchCAS(t, c, k)
    \/ \E t \in Threads : FetchFail(t)
    \/ \E t \in Threads : FetchStamp(t)
    \/ \E t \in Threads : FetchDispatch(t)
    \/ \E t \in Threads : FetchReturn(t)
    \/ \E r \in ReqIds : GoRequest(r)
    \/ \E t \in Threads, r \in ReqIds, n \in 0..MaxDelivered : SetIdleUpdate(t, r, n)
    \/ \E t \in Threads : SetIdleStore(t)
    \/ \E t \in Threads, c \in Conns : ResetCall(t, c)
    \/ \E t \in Threads : ResetStore(t)
    \/ \E t \in Threads : ResetLast(t)

Spec == Init /\ [][Next]_vars

\* The flag that is never released: headerIdle of connection c1.
HeldConn == "c1"
HeldKind == "headers"

\* The scheduler threads, which select peers and fetch, and the completion
\* paths, which call Set*Idle and Reset.
Schedulers == {"t1"}
Completers == {"t2"}

\* A scheduler that fetches, marks, looks up and queries while time passes,
\* and a completion path that calls Set*Idle for every request but those of
\* the held flag, and Reset on every connection but that of the held flag.
NextNoRelease ==
    \/ \E t \in Schedulers, c \in Conns, k \in Kinds : FetchPanic(t, c, k)
    \/ \E t \in Schedulers, c \in Conns, k \in Kinds : FetchCAS(t, c, k)
    \/ \E t \in Threads : FetchFail(t)
    \/ \E t \in Threads : FetchStamp(t)
    \/ \E t \in Threads : FetchDispatch(t)
    \/ \E t \in Threads : FetchReturn(t)
    \/ \E r \in ReqIds : GoRequest(r)
    \/ \E t \in Completers, r \in ReqIds, n \in 0..MaxDelivered :
          /\ r \in LiveReqs
          /\ <<Req(r).c, Req(r).k>> # <<HeldConn, HeldKind>>
          /\ SetIdleUpdate(t, r, n)
    \/ \E t \in Threads : SetIdleStore(t)
    \/ \E t \in Completers, c \in Conns \ {HeldConn} : ResetCall(t, c)
    \/ \E t \in Threads : ResetStore(t)
    \/ \E t \in Threads : ResetLast(t)
    \/ \E t \in Schedulers, c \in Conns, h \in SpecHashes : MarkLacking(t, c, h)
    \/ \E t \in Schedulers, c \in Conns, h \in SpecHashes : Lacks(t, c, h)
    \/ \E t \in Schedulers, k \in Kinds : IdlePeers(t, k)
    \/ Tick

SpecNoRelease == Init /\ [][NextNoRelease]_vars

\* The thread that fetches, completes, marks and resets, and the thread that
\* admits and removes peers and queries the peer set.
Syncer == "t1"
Manager == "t2"

\* The connections the syncer works on, and the kinds it fetches.
SyncConns == {"c1"}
SyncKinds == Kinds

\* The ids the manager removes.
ManagedIds == {"A"}

\* A syncer that fetches, completes, marks and resets on the first peer, while
\* a manager admits the newcomers, removes the first peer and queries the
\* peer set.
NextSession ==
    \/ \E c \in SyncConns, k \in SyncKinds : FetchCAS(Syncer, c, k)
    \/ \E t \in Threads : FetchFail(t)
    \/ \E t \in Threads : FetchStamp(t)
    \/ \E t \in Threads : FetchDispatch(t)
    \/ \E t \in Threads : FetchReturn(t)
    \/ \E r \in ReqIds : GoRequest(r)
    \/ \E r \in ReqIds : SetIdleUpdate(Syncer, r, MaxDelivered)
    \/ \E t \in Threads : SetIdleStore(t)
    \/ \E c \in SyncConns : ResetCall(Syncer, c)
    \/ \E t \in Threads : ResetStore(t)
    \/ \E t \in Threads : ResetLast(t)
    \/ \E c \in SyncConns, h \in SpecHashes : MarkLacking(Syncer, c, h)
    \/ \E c \in SyncConns, h \in SpecHashes : Lacks(Syncer, c, h)
    \/ \E c \in SyncConns, k \in SyncKinds : Capacity(Syncer, c, k)
    \/ \E c \in Newcomers : RegisterDup(Manager, c)
    \/ \E c \in Newcomers : RegisterNew(Manager, c)
    \/ \E t \in Threads : RegisterFail(t)
    \/ \E t \in Threads : RegisterTrack(t)
    \/ \E t \in Threads : RegisterInsert(t)
    \/ \E t \in Threads : RegisterSend(t)
    \/ \E id \in ManagedIds : UnregisterUnknown(Manager, id)
    \/ \E id \in ManagedIds : UnregisterKnown(Manager, id)
    \/ \E t \in Threads : UnregisterFail(t)
    \/ \E t \in Threads : UnregisterUntrack(t)
    \/ \E t \in Threads : UnregisterSend(t)
    \/ \E k \in Kinds : IdlePeers(Manager, k)
    \/ Lookup(Manager)

SpecSession == Init /\ [][NextSession]_vars

\* A syncer that fetches and completes on the first peer while a manager
\* admits the newcomers, removes the first peer and queries the peer set.
NextQuery ==
    \/ \E c \in SyncConns, k \in SyncKinds : FetchCAS(Syncer, c, k)
    \/ \E t \in Threads : FetchFail(t)
    \/ \E t \in Threads : FetchStamp(t)
    \/ \E t \in Threads : FetchDispatch(t)
    \/ \E t \in Threads : FetchReturn(t)
    \/ \E r \in ReqIds : GoRequest(r)
    \/ \E r \in ReqIds : SetIdleUpdate(Syncer, r, MaxDelivered)
    \/ \E t \in Threads : SetIdleStore(t)
    \/ \E c \in Newcomers : RegisterDup(Manager, c)
    \/ \E c \in Newcomers : RegisterNew(Manager, c)
    \/ \E t \in Threads : RegisterFail(t)
    \/ \E t \in Threads : RegisterTrack(t)
    \/ \E t \in Threads : RegisterInsert(t)
    \/ \E t \in Threads : RegisterSend(t)
    \/ \E id \in ManagedIds : UnregisterUnknown(Manager, id)
    \/ \E id \in ManagedIds : UnregisterKnown(Manager, id)
    \/ \E t \in Threads : UnregisterFail(t)
    \/ \E t \in Threads : UnregisterUntrack(t)
    \/ \E t \in Threads : UnregisterSend(t)
    \/ \E k \in Kinds : IdlePeers(Manager, k)

SpecQuery == Init /\ [][NextQuery]_vars

\* The capacities per kind that the tracker of a peer admitted earlier can
\* hold once its deliveries have been measured: a slow and a fast header peer,
\* whose receipt and state capacities are ranked the other way round.
RankCapacities ==
    {[headers |-> 9, bodies |-> 0, receipts |-> 4, state |-> 0],
     [headers |-> 49, bodies |-> 1, receipts |-> 0, state |-> 4]}

\* c1 and c2 have been admitted by Register and have delivered before: their
\* trackers hold measured capacities; nothing is in flight.
InitRank ==
    /\ now = 1
    /\ calls = [m \in DOMAIN MaxOf |-> 0]
    /\ crashed = FALSE
    /\ version \in Versions
    /\ NoSegment
    /\ busy = [c \in Sessions |-> [k \in Kinds |-> FALSE]]
    /\ started = [c \in Sessions |-> [k \in Kinds |-> ZeroTime]]
    /\ \E caps \in [Conns -> RankCapacities] :
          tracker = [c \in Sessions |->
                        IF c \in Conns
                        THEN NewTracker(caps[c], rttStartEstimate)
                        ELSE NoTracker]
    /\ lacking = [c \in Sessions |-> {}]
    /\ plock = [c \in Sessions |-> NoThread]
    /\ peers = [i \in Ids |-> IF \E c \in Conns : ConnId[c] = i
                              THEN CHOOSE c \in Conns : ConnId[c] = i
                              ELSE NoConn]
    /\ tracked = {ConnId[c] : c \in Conns}
    /\ joined = <<"c1", "c2">>
    /\ left = <<>>
    /\ pslock = NoLock
    /\ feed = [f \in Feeds |-> NoSubscriber]
    /\ pc = [t \in Threads |-> "idle"]
    /\ call = [t \in Threads |-> NoCall]
    /\ reqs = {}
    /\ tainted = [c \in Sessions |-> [k \in Kinds |-> FALSE]]
    /\ wins = [c \in Sessions |-> [k \in Kinds |-> 0]]
    /\ observed = [c \in Sessions |-> <<>>]
    /\ marked = [c \in Sessions |-> <<>>]

\* A syncer that fetches from the first peer, completes its requests and asks
\* for capacities, while a manager admits the newcomers, removes the first
\* peer and queries the peer set.
NextRank ==
    \/ \E c \in SyncConns, k \in SyncKinds : FetchCAS(Syncer, c, k)
    \/ \E t \in Threads : FetchFail(t)
    \/ \E t \in Threads : FetchStamp(t)
    \/ \E t \in Threads : FetchDispatch(t)
    \/ \E t \in Threads : FetchReturn(t)
    \/ \E r \in ReqIds : GoRequest(r)
    \/ \E r \in ReqIds : SetIdleUpdate(Syncer, r, MaxDelivered)
    \/ \E t \in Threads : SetIdleStore(t)
    \/ \E c \in Sessions, k \in Kinds : Capacity(Syncer, c, k)
    \/ \E c \in Newcomers : RegisterDup(Manager, c)
    \/ \E c \in Newcomers : RegisterNew(Manager, c)
    \/ \E t \in Threads : RegisterFail(t)
    \/ \E t \in Threads : RegisterTrack(t)
    \/ \E t \in Threads : RegisterInsert(t)
    \/ \E t \in Threads : RegisterSend(t)
    \/ \E id \in ManagedIds : UnregisterUnknown(Manager, id)
    \/ \E id \in ManagedIds : UnregisterKnown(Manager, id)
    \/ \E t \in Threads : UnregisterFail(t)
    \/ \E t \in Threads : UnregisterUntrack(t)
    \/ \E t \in Threads : UnregisterSend(t)
    \/ \E k \in Kinds : IdlePeers(Manager, k)

SpecRank == InitRank /\ [][NextRank]_vars

\* The connection whose lacking set is at work, and the sets it can hold when
\* the behaviour begins: whatever earlier MarkLacking calls have left.
LackConns == {"c1"}
LackingSets == {S \in SUBSET Hashes : Cardinality(S) <= maxLackingHashes}

\* MarkLacking calls, one per hash, that leave the set S.
RECURSIVE MarksOf(_)
MarksOf(S) ==
    IF S = {} THEN <<>>
    ELSE LET h == CHOOSE x \in S : TRUE
         IN Append(MarksOf(S \ {h}), [hash |-> h, met |-> S \ {h}])

\* c1 and c2 have been admitted by Register and hashes have been marked on c1
\* before; nothing is in flight.
InitLacking ==
    /\ now = 1
    /\ calls = [m \in DOMAIN MaxOf |-> 0]
    /\ crashed = FALSE
    /\ version \in Versions
    /\ NoSegment
    /\ busy = [c \in Sessions |-> [k \in Kinds |-> FALSE]]
    /\ started = [c \in Sessions |-> [k \in Kinds |-> ZeroTime]]
    /\ tracker = [c \in Sessions |->
                     IF c \in Conns
                     THEN NewTracker([k \in Kinds |-> 0], rttStartEstimate)
                     ELSE NoTracker]
    /\ \E sets \in [LackConns -> LackingSets] :
          /\ lacking = [c \in Sessions |-> IF c \in LackConns THEN sets[c] ELSE {}]
          /\ marked = [c \in Sessions |->
                          IF c \in LackConns THEN MarksOf(sets[c]) ELSE <<>>]
    /\ plock = [c \in Sessions |-> NoThread]
    /\ peers = [i \in Ids |-> IF \E c \in Conns : ConnId[c] = i
                              THEN CHOOSE c \in Conns : ConnId[c] = i
                              ELSE NoConn]
    /\ tracked = {ConnId[c] : c \in Conns}
    /\ joined = <<"c1", "c2">>
    /\ left = <<>>
    /\ pslock = NoLock
    /\ feed = [f \in Feeds |-> NoSubscriber]
    /\ pc = [t \in Threads |-> "idle"]
    /\ call = [t \in Threads |-> NoCall]
    /\ reqs = {}
    /\ tainted = [c \in Sessions |-> [k \in Kinds |-> FALSE]]
    /\ wins = [c \in Sessions |-> [k \in Kinds |-> 0]]
    /\ observed = [c \in Sessions |-> <<>>]

\* Threads that mark hashes, look them up and reset the connection.
NextLacking ==
    \/ \E t \in Threads, c \in LackConns, h \in Hashes : MarkLacking(t, c, h)
    \/ \E t \in Threads, c \in LackConns, h \in Hashes : Lacks(t, c, h)
    \/ \E t \in Threads, c \in LackConns : ResetCall(t, c)
    \/ \E t \in Threads : ResetStore(t)
    \/ \E t \in Threads : ResetLast(t)

SpecLacking == InitLacking /\ [][NextLacking]_vars

\* The kind fetched while the registry is at work.
RegistryKind == "headers"

\* Threads that register and unregister peers, subscribe to the feeds, reset
\* and query the peer set, while headers are fetched from the peers admitted
\* first.
NextRegistry ==
    \/ \E t \in Threads, f \in Feeds : Subscribe(t, f)
    \/ \E t \in Threads, c \in Sessions : RegisterDup(t, c)
    \/ \E t \in Threads, c \in Sessions : RegisterNew(t, c)
    \/ \E t \in Threads : RegisterFail(t)
    \/ \E t \in Threads : RegisterTrack(t)
    \/ \E t \in Threads : RegisterInsert(t)
    \/ \E t \in Threads : RegisterSend(t)
    \/ \E t \in Threads, id \in Ids : UnregisterUnknown(t, id)
    \/ \E t \in Threads, id \in Ids : UnregisterKnown(t, id)
    \/ \E t \in Threads : UnregisterFail(t)
    \/ \E t \in Threads : UnregisterUntrack(t)
    \/ \E t \in Threads : UnregisterSend(t)
    \/ \E t \in Threads : PsResetCall(t)
    \/ \E t \in Threads, c \in Sessions : PsResetPeer(t, c)
    \/ \E t \in Threads : PsResetDone(t)
    \/ \E t \in Threads : ResetStore(t)
    \/ \E t \in Threads : ResetLast(t)
    \/ \E t \in Threads : IdlePeers(t, RegistryKind)
    \/ \E t \in Threads : Lookup(t)
    \/ \E c \in SyncConns : FetchCAS(Syncer, c, RegistryKind)
    \/ \E t \in Threads : FetchFail(t)
    \/ \E t \in Threads : FetchStamp(t)
    \/ \E t \in Threads : FetchDispatch(t)
    \/ \E t \in Threads : FetchReturn(t)
    \/ \E r \in ReqIds : GoRequest(r)
    \/ \E r \in ReqIds, n \in 0..MaxDelivered : SetIdleUpdate(Syncer, r, n)
    \/ \E t \in Threads : SetIdleStore(t)

SpecRegistry == Init /\ [][NextRegistry]_vars

\* A syncer that fetches headers from the peers admitted first, marks hashes
\* on them and then resets the peer set, while a manager subscribes to the
\* feeds and admits and removes peers.
NextPsReset ==
    \/ \E c \in Conns : FetchCAS(Syncer, c, RegistryKind)
    \/ \E t \in Threads : FetchFail(t)
    \/ \E t \in Threads : FetchStamp(t)
    \/ \E t \in Threads : FetchDispatch(t)
    \/ \E t \in Threads : FetchReturn(t)
    \/ \E r \in ReqIds : GoRequest(r)
    \/ \E c \in Conns, h \in SpecHashes : MarkLacking(Syncer, c, h)
    \/ PsResetCall(Syncer)
    \/ \E t \in Threads, c \in Sessions : PsResetPeer(t, c)
    \/ \E t \in Threads : PsResetDone(t)
    \/ \E t \in Threads : ResetStore(t)
    \/ \E t \in Threads : ResetLast(t)
    \/ \E f \in Feeds : Subscribe(Manager, f)
    \/ \E c \in Newcomers : RegisterDup(Manager, c)
    \/ \E c \in Newcomers : RegisterNew(Manager, c)
    \/ \E t \in Threads : RegisterFail(t)
    \/ \E t \in Threads : RegisterTrack(t)
    \/ \E t \in Threads : RegisterInsert(t)
    \/ \E t \in Threads : RegisterSend(t)
    \/ \E id \in Ids : UnregisterUnknown(Manager, id)
    \/ \E id \in Ids : UnregisterKnown(Manager, id)
    \/ \E t \in Threads : UnregisterFail(t)
    \/ \E t \in Threads : UnregisterUntrack(t)
    \/ \E t \in Threads : UnregisterSend(t)

SpecPsReset == Init /\ [][NextPsReset]_vars

\* Threads that register and unregister peers, reset the peer set and single
\* sessions, query the idle peers and the registry, and mark and look up
\* hashes, each of them from any thread.
NextLocks ==
    \/ \E t \in Threads, c \in Sessions : RegisterDup(t, c)
    \/ \E t \in Threads, c \in Sessions : RegisterNew(t, c)
    \/ \E t \in Threads : RegisterFail(t)
    \/ \E t \in Threads : RegisterTrack(t)
    \/ \E t \in Threads : RegisterInsert(t)
    \/ \E t \in Threads : RegisterSend(t)
    \/ \E t \in Threads, id \in Ids : UnregisterUnknown(t, id)
    \/ \E t \in Threads, id \in Ids : UnregisterKnown(t, id)
    \/ \E t \in Threads : UnregisterFail(t)
    \/ \E t \in Threads : UnregisterUntrack(t)
    \/ \E t \in Threads : UnregisterSend(t)
    \/ \E t \in Threads : PsResetCall(t)
    \/ \E t \in Threads, c \in Sessions : PsResetPeer(t, c)
    \/ \E t \in Threads : PsResetDone(t)
    \/ \E t \in Threads, c \in Conns : ResetCall(t, c)
    \/ \E t \in Threads : ResetStore(t)
    \/ \E t \in Threads : ResetLast(t)
    \/ \E t \in Threads, k \in Kinds : IdlePeers(t, k)
    \/ \E t \in Threads : Lookup(t)
    \/ \E t \in Threads, c \in Conns, h \in SpecHashes : MarkLacking(t, c, h)
    \/ \E t \in Threads, c \in Conns, h \in SpecHashes : Lacks(t, c, h)

SpecLocks == Init /\ [][NextLocks]_vars

\* A new segment file is opened; data is written to it, read back at the
\* positions the Writes have returned, and iterated by a reader; the segment
\* is closed in the end.  The peer set is empty and left alone.
InitSegment ==
    /\ now = 1
    /\ calls = [m \in DOMAIN MaxOf |-> 0]
    /\ crashed = FALSE
    /\ version = CHOOSE v \in Versions : TRUE
    /\ OpenSegment
    /\ busy = [c \in Sessions |-> [k \in Kinds |-> FALSE]]
    /\ started = [c \in Sessions |-> [k \in Kinds |-> ZeroTime]]
    /\ tracker = [c \in Sessions |-> NoTracker]
    /\ lacking = [c \in Sessions |-> {}]
    /\ plock = [c \in Sessions |-> NoThread]
    /\ peers = [i \in Ids |-> NoConn]
    /\ tracked = {}
    /\ joined = <<>>
    /\ left = <<>>
    /\ pslock = NoLock
    /\ feed = [f \in Feeds |-> NoSubscriber]
    /\ pc = [t \in Threads |-> "idle"]
    /\ call = [t \in Threads |-> NoCall]
    /\ reqs = {}
    /\ tainted = [c \in Sessions |-> [k \in Kinds |-> FALSE]]
    /\ wins = [c \in Sessions |-> [k \in Kinds |-> 0]]
    /\ observed = [c \in Sessions |-> <<>>]
    /\ marked = [c \in Sessions |-> <<>>]

NextSegment ==
    \/ \E len \in DataLens : Write(len)
    \/ \E i \in 1..MaxWrites : Read(i)
    \/ NewReader
    \/ ReaderNext
    \/ Close

SpecSegment == InitSegment /\ [][NextSegment]_vars

\* --------------------------------------------------------------- claims
\* The step in which thread t, inside Fetch*, applies the compare-and-swap.
CasStep(t) == pc[t] = "idle" /\ pc'[t] \in {"F_time", "F_fail"}

\* Request r as it is after the step.
ReqAfter(r) == CHOOSE q \in reqs' : q.id = r

\* The requests of kind k on connection c whose Fetch has returned nil and
\* whose Set*Idle has not completed.
Succeeded(c, k) == {r \in Won(c, k) : Returned(r)}

\* Thread t is inside a Fetch* of kind k on connection c.
Fetching(t, c, k) == call[t].op = "Fetch" /\ call[t].c = c /\ call[t].k = k

\* Some Set*Idle of kind k has recorded an observation on connection c.
Observed(c, k) == \E i \in DOMAIN observed[c] : observed[c][i].kind = k

\* C1 (as stated): whatever the interleaving of Fetch, SetIdle and Reset, no
\* connection ever has two outstanding requests of one kind.
C1_AtMostOneOutstanding ==
    \A c \in Conns, k \in Kinds : Cardinality(Outstanding(c, k)) <= 1

\* C1 (amended): under any interleaving of Fetch, SetIdle and Reset, a
\* connection has at most one outstanding request of a kind, as long as no
\* Reset has cleared that kind's flag while a request won on it was not yet
\* completed.
C1_AtMostOneOutstandingUnlessReset ==
    \A c \in Conns, k \in Kinds :
        ~tainted[c][k] => Cardinality(Outstanding(c, k)) <= 1

\* A request is outstanding after a Set*Idle and a Reset have run on the
\* connection, and a further Fetch of the kind has lost.
C1_Witness ==
    \E c \in Conns, k \in Kinds, t \in Threads :
        /\ ~tainted[c][k]
        /\ Cardinality(Outstanding(c, k)) = 1
        /\ calls["reset"] > 0
        /\ observed[c] # <<>>
        /\ pc[t] = "F_fail" /\ Fetching(t, c, k)

\* C2 (as stated): while a request of a kind is outstanding on a connection,
\* the kind's flag reads busy.
C2_BusyWhileOutstanding ==
    \A c \in Conns, k \in Kinds : Outstanding(c, k) # {} => busy[c][k]

\* C2 (amended): while a request of a kind is outstanding on a connection the
\* kind's flag reads busy, as long as no Reset has cleared that flag while a
\* request won on it was not yet completed.
C2_BusyWhileOutstandingUnlessReset ==
    \A c \in Conns, k \in Kinds :
        ~tainted[c][k] /\ Outstanding(c, k) # {} => busy[c][k]

\* A request is outstanding, an earlier request of its kind has been
\* completed, and a Reset of the connection is under way that has not reached
\* the kind's flag.
C2_Witness ==
    \E c \in Conns, k \in Kinds, t \in Threads :
        /\ Outstanding(c, k) # {}
        /\ ~tainted[c][k]
        /\ busy[c][k]
        /\ Observed(c, k)
        /\ pc[t] = "R_store" /\ call[t].c = c

\* C3: of the Fetches of one kind that reach the flag of a connection between
\* two clearings of it, exactly one wins: a Fetch that finds the flag idle wins
\* it and makes the one request, a Fetch that finds it busy goes on to return
\* errAlreadyFetching and makes and dispatches no request.
C3_ExactlyOneWinner ==
    /\ [](\A c \in Conns, k \in Kinds : wins[c][k] <= 1)
    /\ [][\A t \in Threads :
            /\ CasStep(t) =>
                 LET c == call'[t].c
                     k == call'[t].k
                 IN IF busy[c][k]
                    THEN /\ pc'[t] = "F_fail"
                         /\ reqs' = reqs
                         /\ wins' = wins
                    ELSE /\ pc'[t] = "F_time"
                         /\ wins'[c][k] = 1
                         /\ Cardinality(reqs') = Cardinality(reqs) + 1
            /\ pc[t] = "F_fail" /\ pc'[t] # "F_fail" =>
                 /\ pc'[t] = "idle"
                 /\ reqs' = reqs]_vars

\* Two threads are inside Fetch of the same kind on the same connection, no
\* Reset has been called, one has won and the other has lost.
C3_Witness ==
    \E c \in Conns, k \in Kinds, t \in Threads, u \in Threads :
        /\ calls["reset"] = 0
        /\ Fetching(t, c, k) /\ pc[t] \in {"F_time", "F_go", "F_ret"}
        /\ Fetching(u, c, k) /\ pc[u] = "F_fail"

\* C4: a Fetch that finds the flag busy returns errAlreadyFetching, and from
\* its call to its return it leaves the flags, the start timestamps, the rate
\* trackers and the requests as they were.
C4_FailedFetchChangesNothing ==
    [][\A t \in Threads :
         /\ CasStep(t) /\ busy[call'[t].c][call'[t].k] =>
              /\ pc'[t] = "F_fail"
              /\ busy' = busy /\ started' = started /\ tracker' = tracker
              /\ reqs' = reqs
         /\ pc[t] = "F_fail" /\ pc'[t] # "F_fail" =>
              /\ pc'[t] = "idle"
              /\ busy' = busy /\ started' = started /\ tracker' = tracker
              /\ reqs' = reqs]_vars

\* A Fetch is about to return errAlreadyFetching for a kind whose flag is
\* busy, whose timestamp is written, and whose connection's tracker holds an
\* observation.
C4_Witness ==
    \E t \in Threads :
        /\ pc[t] = "F_fail"
        /\ busy[call[t].c][call[t].k]
        /\ started[call[t].c][call[t].k] # ZeroTime
        /\ observed[call[t].c] # <<>>

\* C5 (as stated, its last part): no request is dispatched while the flag of
\* its kind is idle.
C5_DispatchOnlyWhileBusy ==
    [][\A t \in Threads :
         pc[t] = "F_go" /\ pc'[t] = "F_ret" => busy[call[t].c][call[t].k]]_vars

\* C5 (amended): a Fetch that has won the flag writes the current time as the
\* kind's start timestamp, then dispatches its request, once, then returns
\* nil; no request is dispatched before the timestamp of its Fetch is
\* written, and none while the flag is idle unless a Reset has cleared the
\* flag while a request won on it was not yet completed.
C5_StampThenDispatchOnce ==
    /\ [](\A q \in reqs : q.go <= 1 /\ q.sent <= q.go)
    /\ [][\A t \in Threads :
            LET c == call[t].c
                k == call[t].k
                r == call[t].r
            IN /\ pc[t] = "F_time" /\ pc'[t] # "F_time" =>
                    /\ pc'[t] = "F_go"
                    /\ started'[c][k] = now
                    /\ ReqAfter(r).stamp = now
                    /\ ReqAfter(r).go = 0
                    /\ busy[c][k] \/ tainted[c][k]
               /\ pc[t] = "F_go" /\ pc'[t] # "F_go" =>
                    /\ pc'[t] = "F_ret"
                    /\ Req(r).stamp # ZeroTime
                    /\ Req(r).go = 0
                    /\ ReqAfter(r).go = 1
                    /\ busy[c][k] \/ tainted[c][k]
               /\ pc[t] = "F_ret" /\ pc'[t] # "F_ret" =>
                    /\ pc'[t] = "idle"
                    /\ r \in LiveReqs => Req(r).go = 1]_vars

\* A Fetch is about to return nil: its flag is busy, no Reset has interfered,
\* its timestamp is written and its one request is dispatched.
C5_Witness ==
    \E t \in Threads :
        /\ pc[t] = "F_ret"
        /\ busy[call[t].c][call[t].k]
        /\ ~tainted[call[t].c][call[t].k]
        /\ \E q \in reqs : /\ q.id = call[t].r
                           /\ q.go = 1
                           /\ q.stamp = started[q.c][q.k]
                           /\ q.stamp # ZeroTime

\* C6: a Fetch that has won the flag can always take its next step, up to and
\* including its return, whether or not the goroutine it spawned has called
\* p.peer.RequestX: nothing it does waits for the dispatched request.
C6_FetchNeverWaits ==
    \A t \in Threads :
        ~crashed /\ pc[t] \in {"F_time", "F_go", "F_ret"} =>
            ENABLED (FetchStamp(t) \/ FetchDispatch(t) \/ FetchReturn(t))

\* A Fetch has returned nil and the goroutine it spawned has not yet called
\* p.peer.RequestX.
C6_Witness ==
    \E q \in reqs :
        /\ ~crashed
        /\ q.go = 1
        /\ q.sent = 0
        /\ Returned(q.id)

\* C7: a Fetch of headers or bodies panics exactly when the connection's
\* version is below 62, a Fetch of receipts or state exactly when it is below
\* 63, and the panicking Fetch leaves the flags, the timestamps, the trackers
\* and the requests as they were.
C7_PanicBelowFloorOnly ==
    [][\A t \in Threads :
         pc[t] = "idle" /\ call'[t].op = "Fetch" =>
             LET c == call'[t].c
                 k == call'[t].k
                 below == \/ k \in {"headers", "bodies"} /\ version[c] < 62
                          \/ k \in {"receipts", "state"} /\ version[c] < 63
             IN /\ below <=> pc'[t] = "panicked"
                /\ below <=> crashed'
                /\ below => /\ busy' = busy
                            /\ started' = started
                            /\ tracker' = tracker
                            /\ reqs' = reqs]_vars

\* A Fetch of receipts has panicked on a version-62 connection on which a
\* Fetch of headers has succeeded.
C7_Witness ==
    \E t \in Threads :
        /\ pc[t] = "panicked"
        /\ call[t].op = "Fetch"
        /\ call[t].k = "receipts"
        /\ version[call[t].c] = 62
        /\ busy[call[t].c]["headers"]
        /\ Outstanding(call[t].c, "headers") # {}

\* What a Set*Idle of thread t hands to the tracker of its connection, and to
\* no other, in its first step; `exact` says where its elapsed time must be
\* measured from the timestamp of the Fetch it completes.
SetIdleRecords(t, exact) ==
    LET c == call'[t].c
        k == call'[t].k
        q == Req(call'[t].r)
        old == observed[c]
        new == observed'[c]
    IN /\ Len(new) = Len(old) + 1
       /\ SubSeq(new, 1, Len(old)) = old
       /\ new[Len(new)].kind = k
       /\ new[Len(new)].items = call'[t].n
       /\ exact => new[Len(new)].elapsed = now - q.stamp
       /\ \A d \in Conns \ {c} : tracker'[d] = tracker[d] /\ observed'[d] = observed[d]
       /\ busy' = busy

\* C8 (as stated): a Set*Idle records exactly one observation, of its kind,
\* with the delivered item count and the time elapsed since the timestamp
\* written by the Fetch it completes, and clears the flag in a later step.
C8_ObservationFromOwnFetch ==
    [][\A t \in Threads :
         /\ pc[t] = "idle" /\ pc'[t] = "S_store" => SetIdleRecords(t, TRUE)
         /\ pc[t] = "S_store" /\ pc'[t] = "idle" =>
              /\ tracker' = tracker /\ observed' = observed
              /\ ~busy'[call[t].c][call[t].k]]_vars

\* C8 (amended): a Set*Idle records exactly one observation, of its kind, with
\* the delivered item count, and clears the flag in a later step; the elapsed
\* time is measured from the timestamp written by the Fetch it completes, and
\* the flag is busy until that later step, as long as no Reset has cleared the
\* flag while a request won on it was not yet completed.
C8_ObservationFromOwnFetchUnlessReset ==
    [][\A t \in Threads :
         /\ pc[t] = "idle" /\ pc'[t] = "S_store" =>
              /\ SetIdleRecords(t, ~tainted[call'[t].c][call'[t].k])
              /\ ~tainted[call'[t].c][call'[t].k] => busy'[call'[t].c][call'[t].k]
         /\ pc[t] = "S_store" /\ pc'[t] = "idle" =>
              /\ tracker' = tracker /\ observed' = observed
              /\ ~busy'[call[t].c][call[t].k]]_vars

\* A Set*Idle has recorded one delivered item and a positive elapsed time and
\* has not yet cleared the flag, which is busy.
C8_Witness ==
    \E t \in Threads :
        /\ pc[t] = "S_store"
        /\ ~tainted[call[t].c][call[t].k]
        /\ busy[call[t].c][call[t].k]
        /\ LET log == observed[call[t].c]
           IN /\ log # <<>>
              /\ log[Len(log)].items = 1
              /\ log[Len(log)].elapsed > 0

\* C9 (as stated): while the request of a Fetch that has returned nil is not
\* completed by its Set*Idle, every Fetch of the kind fails; the first Fetch
\* to reach the flag after a Set*Idle has cleared it wins.
C9_FailUntilSetIdle ==
    [][\A t \in Threads :
         CasStep(t) =>
             LET c == call'[t].c
                 k == call'[t].k
             IN /\ Succeeded(c, k) # {} => pc'[t] = "F_fail"
                /\ wins[c][k] = 0 => pc'[t] = "F_time"]_vars

\* C9 (amended): while the request of a Fetch that has returned nil is not
\* completed by its Set*Idle, every Fetch of the kind fails, as long as no
\* Reset has cleared the flag in the meantime; the first Fetch to reach the
\* flag after a Set*Idle (or a Reset) has cleared it wins.
C9_FailUntilSetIdleOrReset ==
    [][\A t \in Threads :
         /\ CasStep(t) =>
              LET c == call'[t].c
                  k == call'[t].k
              IN /\ Succeeded(c, k) # {} /\ ~tainted[c][k] => pc'[t] = "F_fail"
                 /\ wins[c][k] = 0 => pc'[t] = "F_time"
         /\ pc[t] = "S_store" /\ pc'[t] = "idle" =>
              /\ ~busy'[call[t].c][call[t].k]
              /\ wins'[call[t].c][call[t].k] = 0]_vars

\* Without any Reset: a request has been completed by its Set*Idle, the next
\* Fetch of its kind has won, and a further Fetch of the kind has lost.
C9_Witness ==
    \E c \in Conns, k \in Kinds, t \in Threads :
        /\ calls["reset"] = 0
        /\ Observed(c, k)
        /\ Outstanding(c, k) # {}
        /\ pc[t] = "F_fail" /\ Fetching(t, c, k)

\* C10: where no thread calls Set*Idle for the held kind on the held
\* connection or Reset on the held connection, the held flag, once busy, stays
\* busy in every step (time passing, failed Fetches, idle-peer queries,
\* MarkLacking, Lacks, Fetch and Set*Idle of other kinds, operations on the
\* other connection), and every Fetch that finds it busy fails.
C10_BusyForeverWithoutRelease ==
    [][/\ busy[HeldConn][HeldKind] => busy'[HeldConn][HeldKind]
       /\ \A t \in Threads :
            /\ CasStep(t)
            /\ call'[t].c = HeldConn /\ call'[t].k = HeldKind
            /\ busy[HeldConn][HeldKind]
            => pc'[t] = "F_fail"]_vars

\* The held flag is busy although, since its Fetch, time has passed, a hash
\* has been marked, a request of another kind on its connection has been
\* completed, the other connection has been reset, and a Fetch of its kind
\* has failed.
C10_Witness ==
    \E t \in Threads :
        /\ busy[HeldConn][HeldKind]
        /\ started[HeldConn][HeldKind] # ZeroTime
        /\ now > started[HeldConn][HeldKind] + 1
        /\ calls["mark"] > 0
        /\ calls["reset"] > 0
        /\ \E k \in Kinds \ {HeldKind} : Observed(HeldConn, k)
        /\ pc[t] = "F_fail" /\ Fetching(t, HeldConn, HeldKind)

\* C11: the step that completes a Reset of a connection, no Fetch having run
\* on the connection since the Reset began, leads to a state in which all
\* four flags of the connection read idle and Lacks returns false for every
\* hash, whatever the flags and the lacking set were before.
C11_ResetLeavesIdleAndEmpty ==
    [][\A t \in Threads, c \in Sessions :
         pc[t] = "R_store" /\ pc'[t] = "idle" /\ call[t].c = c =>
             /\ \A k \in Kinds : ~busy'[c][k]
             /\ \A h \in Hashes : ~LacksResult(c, h)']_vars

\* A Reset has completed on a connection that had two flags busy, under
\* requests not yet completed, and a hash marked: all four flags are idle and
\* the lacking set is empty.
C11_Witness ==
    \E c \in SyncConns, j \in Kinds, k \in Kinds :
        /\ j # k
        /\ tainted[c][j] /\ tainted[c][k]
        /\ calls["mark"] > 0
        /\ calls["reset"] > 0
        /\ pc[Syncer] = "idle"
        /\ \A i \in Kinds : ~busy[c][i]
        /\ \A h \in Hashes : ~LacksResult(c, h)

\* The positions inside Register and Unregister.
RegistryPcs == {"Reg_fail", "Reg_track", "Reg_insert", "Reg_send",
                "Unreg_fail", "Unreg_untrack", "Unreg_send"}

\* The step is one of thread t inside Register or Unregister.
RegistryStep(t) ==
    /\ pc'[t] # pc[t]
    /\ pc[t] \in RegistryPcs \/ pc'[t] \in RegistryPcs

\* The step is one of thread t inside a Fetch that found its flag busy.
FailedFetchStep(t) ==
    \/ pc[t] = "idle" /\ pc'[t] = "F_fail"
    \/ pc[t] = "F_fail" /\ pc'[t] = "idle"

\* The step is a Store(false) of a Reset of connection c, run by thread t.
ResetStoreStep(t, c) ==
    \/ pc[t] \in {"idle", "PR_next"} /\ pc'[t] = "R_store" /\ call'[t].c = c
    \/ pc[t] = "R_store" /\ call[t].c = c /\ <<pc'[t], call'[t]>> # <<pc[t], call[t]>>

\* The step is the Store(false) of a Set*Idle of kind k on connection c.
SetIdleStoreStep(t, c, k) ==
    pc[t] = "S_store" /\ pc'[t] = "idle" /\ call[t].c = c /\ call[t].k = k

\* C12: every flag of every connection is idle when the connection is
\* created; a flag goes from idle to busy only in the step in which a Fetch
\* of its kind on its connection wins it, and from busy to idle only in the
\* Store of a Set*Idle of its kind or of a Reset of its connection; the steps
\* of Register, Unregister, MarkLacking and of a Fetch that fails leave every
\* flag as it was (Capacity, Lacks and the peer set's queries change nothing).
C12_FlagChangesOnlyByFetchSetIdleReset ==
    /\ \A c \in Sessions, k \in Kinds : ~busy[c][k]
    /\ [][/\ \A c \in Sessions, k \in Kinds :
               /\ ~busy[c][k] /\ busy'[c][k] =>
                      \E t \in Threads : /\ CasStep(t) /\ pc'[t] = "F_time"
                                         /\ call'[t].c = c /\ call'[t].k = k
               /\ busy[c][k] /\ ~busy'[c][k] =>
                      \E t \in Threads : \/ SetIdleStoreStep(t, c, k)
                                         \/ ResetStoreStep(t, c)
          /\ (\E t \in Threads : RegistryStep(t) \/ FailedFetchStep(t)) =>
                 busy' = busy
          /\ calls'["mark"] # calls["mark"] => busy' = busy]_vars

\* The manager has removed a peer from the peer set and not yet published its
\* departure: a flag of the peer is still busy, a hash has been marked, and a
\* Fetch of the busy kind is failing.
C12_Witness ==
    \E c \in SyncConns, k \in Kinds :
        /\ pc[Manager] = "Unreg_send" /\ call[Manager].c = c
        /\ busy[c][k]
        /\ calls["mark"] > 0
        /\ pc[Syncer] = "F_fail" /\ Fetching(Syncer, c, k)

\* The step is one of thread t inside a Fetch or a Set*Idle of kind k on
\* connection c.
FetchOrSetIdleStep(t, c, k) ==
    \/ /\ pc[t] = "idle" /\ pc'[t] \in {"F_time", "F_fail", "S_store"}
       /\ call'[t].c = c /\ call'[t].k = k
    \/ /\ pc[t] \in {"F_time", "F_go", "F_ret", "F_fail", "S_store"}
       /\ pc'[t] # pc[t]
       /\ call[t].c = c /\ call[t].k = k

\* C13: no step of a Fetch or of a Set*Idle of a kind changes the flag or the
\* start timestamp of another kind of its connection, and a Fetch that finds
\* the flag of its kind idle wins it whatever the flags of the other kinds
\* are.
C13_KindsAreIndependent ==
    [][\A t \in Threads, c \in Conns, k \in Kinds :
         FetchOrSetIdleStep(t, c, k) =>
             /\ \A j \in Kinds \ {k} : /\ busy'[c][j] = busy[c][j]
                                      /\ started'[c][j] = started[c][j]
             /\ CasStep(t) /\ ~busy[c][k] => pc'[t] = "F_time" /\ busy'[c][k]]_vars

\* A connection is busy for one kind, with that kind's timestamp written, and
\* a Fetch of another kind has won its flag on it and written a later
\* timestamp, while a Set*Idle of the first kind is under way.
C13_Witness ==
    \E c \in Conns, j \in Kinds, k \in Kinds, t \in Threads, u \in Threads :
        /\ j # k
        /\ busy[c][j] /\ busy[c][k]
        /\ pc[t] = "F_go" /\ Fetching(t, c, k)
        /\ pc[u] = "S_store" /\ call[u].c = c /\ call[u].k = j
        /\ started[c][j] # ZeroTime
        /\ started[c][k] > started[c][j]

\* The ids in ps.peers.
Keys == {i \in Ids : peers[i] # NoConn}

\* The flags, timestamps, lacking sets and trackers of all connections, the
\* peer set, its tracker collection, its lock and its feeds stay as they are.
NothingMutated ==
    /\ busy' = busy /\ started' = started /\ lacking' = lacking
    /\ tracker' = tracker
    /\ peers' = peers /\ tracked' = tracked /\ pslock' = pslock
    /\ joined' = joined /\ left' = left /\ feed' = feed

\* C14: a Register of a connection whose id is in ps.peers goes on to return
\* errAlreadyRegistered, a Register of an id that is not does not; from the
\* call to the return of the rejected Register the id maps to the connection
\* it mapped to, the flags, timestamps, lacking sets and trackers of all
\* connections (the rejected one's p.rates included) and the tracker
\* collection are unchanged, and nothing is published.
C14_DuplicateRegisterMutatesNothing ==
    [][\A t \in Threads :
         /\ pc[t] = "idle" /\ call'[t].op = "Register" =>
                (peers[call'[t].id] # NoConn <=> pc'[t] = "Reg_fail")
         /\ \/ pc[t] = "idle" /\ pc'[t] = "Reg_fail"
            \/ pc[t] = "Reg_fail" /\ pc'[t] = "idle"
            => NothingMutated]_vars

\* A Register of c4, which carries the id of the registered c1, is about to
\* return errAlreadyRegistered: the id maps to c1, which is busy and has an
\* observation in its tracker, and c4 has no tracker.
C14_Witness ==
    \E t \in Threads :
        /\ pc[t] = "Reg_fail"
        /\ call[t].c = "c4"
        /\ peers[ConnId["c4"]] = "c1"
        /\ busy["c1"][RegistryKind]
        /\ observed["c1"] # <<>>
        /\ tracker["c4"].nil

\* C15: an Unregister of an id that is not in ps.peers goes on to return
\* errNotRegistered, an Unregister of an id that is in ps.peers does not; from
\* the call to the return of the rejected Unregister ps.peers and the tracker
\* collection are unchanged and nothing is published.
C15_UnknownUnregisterMutatesNothing ==
    [][\A t \in Threads :
         /\ pc[t] = "idle" /\ call'[t].op = "Unregister" =>
                (peers[call'[t].id] = NoConn <=> pc'[t] = "Unreg_fail")
         /\ \/ pc[t] = "idle" /\ pc'[t] = "Unreg_fail"
            \/ pc[t] = "Unreg_fail" /\ pc'[t] = "idle"
            => NothingMutated]_vars

\* An Unregister of an id that an earlier Unregister has removed is about to
\* return errNotRegistered, while another peer is registered.
C15_Witness ==
    \E t \in Threads :
        /\ pc[t] = "Unreg_fail"
        /\ peers[call[t].id] = NoConn
        /\ \E i \in DOMAIN left : ConnId[left[i]] = call[t].id
        /\ Keys # {}

\* m is a median of the round trips of the trackers of the connections in S.
IsMedian(m, S) ==
    /\ \E d \in S : tracker[d].roundtrip = m
    /\ 2 * Cardinality({d \in S : tracker[d].roundtrip < m}) <= Cardinality(S)
    /\ 2 * Cardinality({d \in S : tracker[d].roundtrip > m}) <= Cardinality(S)

\* C16: a Register of a new id holds the exclusive lock from its lookup until
\* it has tracked the tracker and inserted the connection; it seeds the
\* tracker with the mean capacities and a median round trip of the trackers
\* of the peers registered before it; it publishes the connection once, after
\* it has released the lock, and nothing else publishes an arrival.
C16_RegisterSeedsInsertsThenPublishes ==
    /\ [](\A t \in Threads : /\ pc[t] \in {"Reg_track", "Reg_insert"} => pslock.w = t
                            /\ pc[t] = "Reg_send" => pslock.w # t /\ t \notin pslock.r)
    /\ [][/\ \A t \in Threads, c \in Sessions :
               /\ pc[t] = "Reg_track" /\ pc'[t] = "Reg_insert" /\ call[t].c = c =>
                    /\ c \notin Registered
                    /\ \A k \in Kinds :
                         tracker'[c].capacity[k] =
                             IF Registered = {} THEN 0
                             ELSE SumOver(Registered,
                                          [d \in Sessions |-> tracker[d].capacity[k]])
                                      \div Cardinality(Registered)
                    /\ IF Registered = {}
                       THEN tracker'[c].roundtrip = rttStartEstimate
                       ELSE IsMedian(tracker'[c].roundtrip, Registered)
                    /\ tracked' = tracked \cup {ConnId[c]}
                    /\ peers' = peers /\ joined' = joined
               /\ pc[t] = "Reg_insert" /\ pc'[t] # "Reg_insert" /\ call[t].c = c =>
                    /\ pc'[t] = "Reg_send"
                    /\ peers' = [peers EXCEPT ![ConnId[c]] = c]
                    /\ ConnId[c] \in tracked
                    /\ tracked' = tracked /\ joined' = joined
                    /\ pslock'.w = NoThread
               /\ pc[t] = "Reg_send" /\ pc'[t] # "Reg_send" /\ call[t].c = c =>
                    /\ pc'[t] = "idle"
                    /\ joined' = Append(joined, c)
          /\ joined' # joined =>
               \E t \in Threads : pc[t] = "Reg_send" /\ pc'[t] = "idle"]_vars

\* c3 has been registered after c2 was removed and c1 had measured a capacity:
\* its tracker holds that capacity, it is in ps.peers and in the tracker
\* collection, its arrival is the last one published, and the lock is free.
C16_Witness ==
    /\ peers[ConnId["c3"]] = "c3"
    /\ ConnId["c3"] \in tracked
    /\ peers[ConnId["c2"]] = NoConn
    /\ tracker["c3"].capacity[RegistryKind] > 0
    /\ tracker["c3"].capacity[RegistryKind] = tracker["c1"].capacity[RegistryKind]
    /\ joined # <<>> /\ joined[Len(joined)] = "c3"
    /\ pslock = NoLock
    /\ \A t \in Threads : pc[t] = "idle"

\* C17: an Unregister of a registered id holds the exclusive lock from its
\* lookup until it has deleted the id from ps.peers and untracked its
\* tracker; it publishes the connection it removed once, after it has released
\* the lock, and nothing else publishes a departure.
C17_UnregisterRemovesThenPublishes ==
    /\ [](\A t \in Threads : /\ pc[t] = "Unreg_untrack" => pslock.w = t
                            /\ pc[t] = "Unreg_send" => pslock.w # t /\ t \notin pslock.r)
    /\ [][/\ \A t \in Threads :
               /\ pc[t] = "idle" /\ pc'[t] = "Unreg_untrack" =>
                    /\ call'[t].c = peers[call'[t].id]
                    /\ call'[t].c # NoConn
                    /\ peers' = [peers EXCEPT ![call'[t].id] = NoConn]
                    /\ left' = left
               /\ pc[t] = "Unreg_untrack" /\ pc'[t] # "Unreg_untrack" =>
                    /\ pc'[t] = "Unreg_send"
                    /\ tracked' = tracked \ {call[t].id}
                    /\ peers[call[t].id] = NoConn /\ peers' = peers
                    /\ left' = left
                    /\ pslock'.w = NoThread
               /\ pc[t] = "Unreg_send" /\ pc'[t] # "Unreg_send" =>
                    /\ pc'[t] = "idle"
                    /\ left' = Append(left, call[t].c)
          /\ left' # left =>
               \E t \in Threads : pc[t] = "Unreg_send" /\ pc'[t] = "idle"]_vars

\* The busy peer c1 has been removed: its id is in neither ps.peers nor the
\* tracker collection, its departure is the one published, and the lock is
\* free.
C17_Witness ==
    /\ peers[ConnId["c1"]] = NoConn
    /\ ConnId["c1"] \notin tracked
    /\ left = <<"c1">>
    /\ busy["c1"][RegistryKind]
    /\ pslock = NoLock
    /\ \A t \in Threads : pc[t] = "idle"

\* C18: whenever no thread holds the exclusive lock of the peer set, the ids
\* in ps.peers are the ids in the tracker collection, and each of them maps to
\* one connection, which carries that id.
C18_PeersMirrorTrackers ==
    pslock.w = NoThread =>
        /\ Keys = tracked
        /\ \A i \in Keys : peers[i] \in Sessions /\ ConnId[peers[i]] = i

\* The lock is free while one thread is between the unlock and the event of a
\* Register and the other between the unlock and the event of an Unregister:
\* c3 is in ps.peers and tracked, the removed peer in neither.
C18_Witness ==
    \E t \in Threads, u \in Threads :
        /\ pslock.w = NoThread
        /\ pc[t] = "Reg_send" /\ call[t].c = "c3"
        /\ pc[u] = "Unreg_send"
        /\ "C" \in Keys /\ "C" \in tracked
        /\ call[u].id \notin Keys /\ call[u].id \notin tracked

\* The positions at which a thread has released the lock of the peer set and
\* has yet to publish its event.
SendPcs == {"Reg_send", "Unreg_send"}

\* The positions inside Fetch* and Set*Idle, which take no lock.
SessionPcs == {"F_time", "F_go", "F_ret", "F_fail", "S_store"}

QueryMins == {61, 63, 64}
QueryMaxs == {62, 63, 65}

\* The registered connections whose version lies in [min, max].
InRange(min, max) ==
    {c \in Sessions : /\ peers[ConnId[c]] = c
                      /\ version[c] >= min /\ version[c] <= max}

\* C20: for all bounds min and max and every kind, what idlePeers returns is a
\* list holding, each once, exactly the registered connections with a version
\* in [min, max] whose flag of the kind is idle, and a total that is the
\* number of registered connections with a version in [min, max], idle or
\* busy.
C20_IdlePeersListsIdleCountsAll ==
    \A min \in QueryMins, max \in QueryMaxs, k \in Kinds :
        LET results == idlePeers(min, max, k)
            idle == {c \in InRange(min, max) : ~busy[c][k]}
        IN /\ results # {}
           /\ \A res \in results :
                /\ {res.list[i] : i \in DOMAIN res.list} = idle
                /\ Len(res.list) = Cardinality(idle)
                /\ res.total = Cardinality(InRange(min, max))

\* Connections of versions 61, 63 and 65 are registered and the one of version
\* 63 is fetching headers: the header query with bounds 63..65 returns the
\* connection of version 65 alone and the total 2.
C20_Witness ==
    /\ Registered = {"c1", "c2", "c3"}
    /\ version["c2"] = 61
    /\ busy["c1"]["headers"]
    /\ idlePeers(63, 65, "headers") = {[list |-> <<"c3">>, total |-> 2]}
    /\ IdlePeersResult("headers") = idlePeers(63, 65, "headers")

\* The lower bounds the ranking of a query is checked with: that of the
\* *IdlePeers queries, and one that lets every peer in.
RankMins == {61, 63}

\* C21: the list an idle-peer query returns is in descending order of the
\* capacity estimate that the query computes for each peer from that peer's own
\* tracker (no peer stands after a peer with a strictly smaller estimate), and
\* it holds every idle candidate exactly once.
C21_ListSortedByDescendingCapacity ==
    \A min \in RankMins, k \in Kinds :
        LET max == idleMaxProtocol
            idle == {c \in InRange(min, max) : ~busy[c][k]}
        IN \A res \in idlePeers(min, max, k) :
              /\ \A i, j \in DOMAIN res.list :
                    i < j => throughput(res.list[i], k) >= throughput(res.list[j], k)
              /\ \A c \in idle :
                    Cardinality({i \in DOMAIN res.list : res.list[i] = c}) = 1
              /\ \A i \in DOMAIN res.list : res.list[i] \in idle

\* Three idle peers whose header estimates are 10, 50 and 30, the third seeded
\* by Register with the mean of the two others: the header query over all
\* versions returns them in the order 50, 30, 10.
C21_Witness ==
    /\ Registered = {"c1", "c2", "c3"}
    /\ pc = [t \in Threads |-> "idle"]
    /\ throughput("c1", "headers") = 10
    /\ throughput("c2", "headers") = 50
    /\ throughput("c3", "headers") = 30
    /\ idlePeers(61, 65, "headers") = {[list |-> <<"c2", "c3", "c1">>, total |-> 3]}

\* C22: for each of the four kinds, the list that the idle-peer query of the
\* kind returns is in descending order of the trackers' one-second estimates
\* for that same kind.  ReceiptIdlePeers ranks by the estimate for state data
\* (ctxc.NodeDataMsg), so this fails for receipts.
C22_EachQueryRanksByItsOwnKind ==
    \A k \in Kinds :
        \A res \in IdlePeersResult(k) :
            \A i, j \in DOMAIN res.list :
                i < j => TrackerCapacity(tracker[res.list[i]], k, 1)
                             >= TrackerCapacity(tracker[res.list[j]], k, 1)

\* The target round trips a capacity is asked for.
TargetRTTs == {1, 2}

\* C23: for every registered connection, kind and target round trip, the
\* capacity returned is the smaller of the tracker's estimate for that kind and
\* round trip and the kind's maximum: it never exceeds the maximum, and it is
\* the estimate whenever the estimate is at or below the maximum.
C23_CapacityIsEstimateCutToMaximum ==
    \A c \in Sessions, k \in Kinds, targetRTT \in TargetRTTs :
        ~tracker[c].nil =>
            LET estimate == TrackerCapacity(tracker[c], k, targetRTT)
                cap == CapacityResult(c, k, targetRTT)
            IN /\ cap <= MaxFetchOf[k]
               /\ estimate <= MaxFetchOf[k] => cap = estimate
               /\ estimate > MaxFetchOf[k] => cap = MaxFetchOf[k]

\* After a delivery has been measured on the first peer, its header estimate
\* is above the maximum and is cut to it, and its body estimate is at the
\* maximum and is returned as it is.
C23_Witness ==
    /\ observed["c1"] # <<>>
    /\ ENABLED Capacity(Syncer, "c1", "headers")
    /\ TrackerCapacity(tracker["c1"], "headers", 1) > MaxFetchOf["headers"]
    /\ CapacityResult("c1", "headers", 1) = MaxFetchOf["headers"]
    /\ TrackerCapacity(tracker["c1"], "bodies", 1) = MaxFetchOf["bodies"]
    /\ CapacityResult("c1", "bodies", 1) = MaxFetchOf["bodies"]
    /\ CapacityResult("c1", "state", 1) < MaxFetchOf["state"]

\* The last MarkLacking call on connection c since it was made or last Reset.
LastMark(c) == marked[c][Len(marked[c])]

\* The step is a MarkLacking(h) on connection c.
MarkStep(c, h) == marked'[c] = Append(marked[c], [hash |-> h, met |-> lacking[c]])

\* C24: whatever MarkLacking, Lacks and Reset calls the threads have made on a
\* connection, its lacking set holds at most maxLackingHashes entries.
C24_LackingNeverAboveCap ==
    \A c \in Sessions : Cardinality(lacking[c]) <= maxLackingHashes

\* A MarkLacking of this behaviour met a full set, and the set is full now.
C24_Witness ==
    /\ calls["mark"] > 0
    /\ marked["c1"] # <<>>
    /\ Cardinality(LastMark("c1").met) = maxLackingHashes
    /\ Cardinality(lacking["c1"]) = maxLackingHashes

\* C25: a MarkLacking of a hash that is not in the lacking set, made while the
\* set holds exactly maxLackingHashes entries, leaves exactly maxLackingHashes
\* entries: the hash is in, exactly one of the entries it met is gone and all
\* the others are still there.
C25_MarkAtCapEvictsExactlyOne ==
    [][\A c \in Sessions, h \in Hashes :
          (/\ MarkStep(c, h)
           /\ h \notin lacking[c]
           /\ Cardinality(lacking[c]) = maxLackingHashes)
          => /\ Cardinality(lacking'[c]) = maxLackingHashes
             /\ h \in lacking'[c]
             /\ Cardinality(lacking[c] \ lacking'[c]) = 1
             /\ lacking'[c] \ lacking[c] = {h}]_vars

\* h3 has been marked on the full set {h1, h2}: h2 is gone, h1 and h3 are in.
C25_Witness ==
    /\ calls["mark"] > 0
    /\ marked["c1"] # <<>>
    /\ LastMark("c1") = [hash |-> "h3", met |-> {"h1", "h2"}]
    /\ lacking["c1"] = {"h1", "h3"}

\* C26: Lacks(h) is true exactly when h is in the lacking set: it is true when
\* MarkLacking(h) has returned, it is false for every hash not marked since the
\* connection was made or last Reset, and a MarkLacking that meets a set below
\* maxLackingHashes removes no entry.
C26_LacksIsMembership ==
    /\ [](\A c \in Sessions, h \in Hashes :
             /\ LacksResult(c, h) <=> h \in lacking[c]
             /\ LacksResult(c, h) => \E i \in DOMAIN marked[c] : marked[c][i].hash = h)
    /\ [][\A c \in Sessions, h \in Hashes :
             MarkStep(c, h) =>
                 /\ LacksResult(c, h)'
                 /\ Cardinality(lacking[c]) < maxLackingHashes
                        => lacking[c] \subseteq lacking'[c]]_vars

\* h2 has been marked on the set {h1}, below the cap: both are found, and h3,
\* not marked since, is not.
C26_Witness ==
    /\ calls["mark"] > 0
    /\ marked["c1"] # <<>>
    /\ LastMark("c1") = [hash |-> "h2", met |-> {"h1"}]
    /\ LacksResult("c1", "h1") /\ LacksResult("c1", "h2")
    /\ ~LacksResult("c1", "h3")
    /\ \A t \in Threads : ENABLED Lacks(t, "c1", "h3")

\* Thread t has won the flag of kind k on connection c and is about to write
\* the start timestamp of that kind.
WritesStarted(t, c, k) == pc[t] = "F_time" /\ call[t].c = c /\ call[t].k = k

\* Thread t may now read the start timestamp of kind k on connection c: a
\* Set*Idle for a request of that kind on c can begin.
ReadsStarted(t, c, k) ==
    \E r \in LiveReqs :
        /\ Req(r).c = c /\ Req(r).k = k
        /\ ENABLED SetIdleUpdate(t, r, 0)

\* C27: a thread that is about to write a start timestamp of a connection, or
\* is inside Reset and about to replace the lacking set, holds the lock of the
\* connection exclusively, so that no write of a start timestamp is pending
\* while another thread writes or reads the same timestamp.  Fetch* writes the
\* timestamp without taking the lock, so this fails.
C27_TimestampWritesHoldTheLock ==
    \A t \in Threads, c \in Sessions, k \in Kinds :
        /\ WritesStarted(t, c, k) => plock[c] = t
        /\ pc[t] = "R_store" /\ call[t].c = c => plock[c] = t
        /\ WritesStarted(t, c, k) =>
              \A u \in Threads \ {t} :
                 ~WritesStarted(u, c, k) /\ ~ReadsStarted(u, c, k)

\* The step is one of thread t inside peerSet.Reset.
PsResetStep(t) ==
    /\ call[t].op = "PsReset" \/ call'[t].op = "PsReset"
    /\ pc'[t] # pc[t] \/ call'[t] # call[t]

\* The step in which peerSet.Reset returns to thread t.
PsResetReturns(t) == call[t].op = "PsReset" /\ pc[t] = "PR_next" /\ pc'[t] = "idle"

CountOf(q, id) == Cardinality({i \in DOMAIN q : ConnId[q[i]] = id})

\* The connection that the Register and Unregister calls returned so far leave
\* under the id: the one of the last successful Register of the id, unless a
\* successful Unregister of the id came after it.
Current(id) ==
    IF CountOf(joined, id) > CountOf(left, id)
    THEN LET last == CHOOSE i \in DOMAIN joined :
                         /\ ConnId[joined[i]] = id
                         /\ \A j \in DOMAIN joined : ConnId[joined[j]] = id => j <= i
         IN joined[last]
    ELSE NoConn

\* No Register or Unregister is under way.
Quiescent == \A t \in Threads : pc[t] \notin RegistryPcs

\* C29: when the Register and Unregister calls made so far have returned,
\* successfully or not, Len() is the number of ids registered and not since
\* unregistered, AllPeers() holds exactly the connections under these ids, each
\* once, and Peer(id) is the connection most recently registered under the id,
\* or none when the id is not registered.
C29_ReadsReflectRegistrations ==
    Quiescent =>
        /\ \A id \in Ids : PeerResult(id) = Current(id)
        /\ LenResult = Cardinality({id \in Ids : Current(id) # NoConn})
        /\ \A q \in AllPeersResult :
              /\ Len(q) = LenResult
              /\ \A id \in Ids :
                    Current(id) # NoConn =>
                        Cardinality({i \in DOMAIN q : q[i] = Current(id)}) = 1
        /\ AllPeersResult # {}

\* c1 has been unregistered and c4 registered under its id: Peer finds c4
\* under the id of c1 and nothing under the id of c3, and two peers are
\* registered.
C29_Witness ==
    /\ Quiescent
    /\ joined = <<"c1", "c2", "c4">>
    /\ left = <<"c1">>
    /\ PeerResult("A") = "c4"
    /\ PeerResult("C") = NoConn
    /\ LenResult = 2
    /\ \E t \in Threads : ENABLED Lookup(t)

\* An Unregister of connection c has succeeded and c has not been registered
\* again since.
Removed(c) ==
    /\ \E i \in DOMAIN left : left[i] = c
    /\ peers[ConnId[c]] # c

\* The step is the winning compare-and-swap of a Fetch* on connection c, or
\* the dispatch of the request of such a Fetch* to the remote peer.
FetchProceeds(c) ==
    \/ \E k \in Kinds : wins'[c][k] > wins[c][k]
    \/ \E q \in reqs' : q.c = c /\ q.go > 0 /\ \A p \in reqs : p.id = q.id => p.go < q.go

\* The registry reads do not return a removed connection.
RemovedIsNotReturned ==
    \A c \in Sessions :
        Removed(c) =>
            /\ \A id \in Ids : PeerResult(id) # c
            /\ \A q \in AllPeersResult : \A i \in DOMAIN q : q[i] # c
            /\ \A k \in Kinds : \A res \in IdlePeersResult(k) :
                  \A i \in DOMAIN res.list : res.list[i] # c

\* C30: once Unregister(id) has succeeded, Peer, AllPeers and the idle-peer
\* queries do not return the removed connection, and no Fetch* on it wins its
\* flag or dispatches a request to its remote peer.  Unregister leaves the
\* connection object as it is, so a Fetch* on it still succeeds.
C30_RemovedPeerTakesNoRequest ==
    /\ []RemovedIsNotReturned
    /\ [][\A c \in Sessions : Removed(c) => ~FetchProceeds(c)]_vars

\* The number of entries of the sequence q that are the connection c.
Published(q, c) == Cardinality({i \in DOMAIN q : q[i] = c})

\* C31: the peer-joined event of a registration is published before the
\* peer-left event of the Unregister that removes this registration, also when
\* Register and Unregister run on different threads: at no time have more
\* peer-left events than peer-joined events been published for a connection.
\* Register publishes after it has unlocked, so an Unregister on another thread
\* can remove the peer and publish its departure first.
C31_JoinedPublishedBeforeLeft ==
    \A c \in Sessions : Published(left, c) <= Published(joined, c)

\* Thread t holds the registry lock, as writer or as reader.
HoldsRegistry(t) == pslock.w = t \/ t \in pslock.r

\* Thread t holds the lock of some session.
HoldsSession(t) == \E c \in Sessions : plock[c] = t

\* The next step of thread t inside Reset, which takes no further lock.
ResetGoesOn(t) == ResetStore(t) \/ ResetLast(t)

\* The next step of thread t inside the call it has begun.
GoesOn(t) ==
    \/ RegisterFail(t) \/ RegisterTrack(t) \/ RegisterInsert(t) \/ RegisterSend(t)
    \/ UnregisterFail(t) \/ UnregisterUntrack(t) \/ UnregisterSend(t)
    \/ \E c \in Sessions : PsResetPeer(t, c)
    \/ PsResetDone(t)
    \/ ResetGoesOn(t)

\* Thread t, inside peerSet.Reset, waits for the lock of a session that
\* thread u holds.
WaitsFor(t, u) ==
    /\ pc[t] = "PR_next"
    /\ \E c \in call[t].rest : plock[c] = u

Joining(id) == {t \in Threads : pc[t] = "Reg_send" /\ call[t].id = id}
Leaving(id) == {t \in Threads : pc[t] \in {"Unreg_untrack", "Unreg_send"}
                                /\ call[t].id = id}

\* The Register calls of the id that have succeeded, returned or about to
\* return nil, and the Unregister calls likewise.
Registers(id) == CountOf(joined, id) + Cardinality(Joining(id))
Unregisters(id) == CountOf(left, id) + Cardinality(Leaving(id))

\* The step is the return of a successful Register or Unregister by thread t.
ReturnsNil(t) == pc[t] \in SendPcs /\ pc'[t] = "idle"

\* C33: for each id the successful Registers and Unregisters alternate in the
\* order in which they hold the registry lock, beginning with a Register: the
\* id has one successful Register more than Unregisters while it is in the
\* registry and as many otherwise, and no Register replaces a peer that is
\* registered, so of several Registers of an id one succeeds until the id is
\* unregistered.  Every successful call publishes exactly one event of its
\* kind when it returns, and nothing else publishes one.
C33_SuccessesAlternate ==
    /\ [](\A id \in Ids :
            Registers(id) - Unregisters(id) = IF peers[id] # NoConn THEN 1 ELSE 0)
    /\ [][/\ \A id \in Ids :
                peers'[id] # peers[id] => peers[id] = NoConn \/ peers'[id] = NoConn
          /\ \A t \in Threads :
                ReturnsNil(t) =>
                    IF pc[t] = "Reg_send"
                    THEN joined' = Append(joined, call[t].c) /\ left' = left
                    ELSE left' = Append(left, call[t].c) /\ joined' = joined
          /\ (\A t \in Threads : ~ReturnsNil(t)) => joined' = joined /\ left' = left
         ]_vars

\* Two threads have called Register for the id C, which was not registered:
\* one has inserted its peer and is about to publish it, the other is about to
\* return an error.
C33_Witness ==
    \E t \in Threads, u \in Threads :
        /\ pc[t] = "Reg_send" /\ call[t].id = "C"
        /\ pc[u] = "Reg_fail" /\ call[u].id = "C"
        /\ peers["C"] = call[t].c
        /\ Registers("C") = 1

\* C34 (as stated): a MarkLacking of a hash that is in the lacking set leaves
\* the set as it is, whatever its size.
C34_RemarkLeavesCacheUnchanged ==
    [][\A c \in Sessions, h \in Hashes :
          (MarkStep(c, h) /\ h \in lacking[c]) => lacking'[c] = lacking[c]]_vars

\* C34 (amended): a MarkLacking of a hash that is in the lacking set leaves
\* the set as it is while the set holds fewer than maxLackingHashes entries.  On a full
\* set the eviction runs before the insertion, whether or not the hash is
\* known: the hash is in the set afterwards, no entry is new, and at most one
\* entry, which can be a different hash, is gone.
C34_RemarkBelowCapLeavesCacheUnchanged ==
    [][\A c \in Sessions, h \in Hashes :
          (MarkStep(c, h) /\ h \in lacking[c]) =>
              IF Cardinality(lacking[c]) < maxLackingHashes
              THEN lacking'[c] = lacking[c]
              ELSE /\ h \in lacking'[c]
                   /\ lacking'[c] \subseteq lacking[c]
                   /\ Cardinality(lacking[c] \ lacking'[c]) <= 1]_vars

\* h1 has been marked again on the full set {h1, h2}: h2 is gone.
C34_Witness ==
    /\ calls["mark"] > 0
    /\ marked["c1"] # <<>>
    /\ LastMark("c1") = [hash |-> "h1", met |-> {"h1", "h2"}]
    /\ lacking["c1"] = {"h1"}

\* The connections that the idle-peer query of kind k can return.
QueryReturns(k) == UNION {{res.list[i] : i \in DOMAIN res.list} : res \in IdlePeersResult(k)}

\* C35: every session that HeaderIdlePeers, BodyIdlePeers, ReceiptIdlePeers or
\* NodeDataIdlePeers returns speaks a protocol version that is at least the
\* floor of the Fetch* of the queried kind, so that no Fetch* of this kind on
\* it can panic.
C35_IdlePeersPassTheFetchFloor ==
    \A k \in Kinds : \A c \in QueryReturns(k) :
        /\ version[c] >= Floor(k)
        /\ \A t \in Threads : ~ENABLED FetchPanic(t, c, k)

\* c3 has been registered and is returned with c1, whose version is the floor
\* of FetchReceipts, by the receipt query; the syncer can fetch receipts from
\* c1, while c2, registered with version 62, is returned by no query although
\* FetchHeaders accepts it.
C35_Witness ==
    /\ {"c1", "c3"} \subseteq QueryReturns("receipts")
    /\ version["c1"] = Floor("receipts")
    /\ ENABLED FetchCAS(Syncer, "c1", "receipts")
    /\ "c2" \in Registered
    /\ version["c2"] = Floor("headers")
    /\ \A k \in Kinds : "c2" \notin QueryReturns(k)
    /\ ENABLED IdlePeers(Manager, "receipts")

\* C36: a Register of a session whose id is not in the registry succeeds.  When
\* Register has found the id absent, the id is not in the aggregate tracker
\* collection either, so Track accepts it and the call goes on to insert the
\* session; the only failing Register is the one that finds the id registered,
\* and it fails before the tracker handle is assigned: the step on which a
\* Register fails changes no tracker handle.
C36_RegisterOfNewIdSucceeds ==
    /\ [](\A t \in Threads : pc[t] = "Reg_track" => call[t].id \notin tracked)
    /\ [][\A t \in Threads :
            /\ (pc[t] = "Reg_track" /\ pc'[t] # "Reg_track") => pc'[t] = "Reg_insert"
            /\ (pc[t] # "Reg_fail" /\ pc'[t] = "Reg_fail") =>
                   /\ pc[t] = "idle"
                   /\ peers[call'[t].id] # NoConn
                   /\ tracker' = tracker]_vars

\* The id A has been unregistered and is being registered again: Track has
\* accepted the new tracker and the session is about to be inserted.
C36_Witness ==
    \E t \in Threads :
        /\ pc[t] = "Reg_insert"
        /\ call[t].id = "A"
        /\ CountOf(left, "A") > 0
        /\ "A" \in tracked
        /\ peers["A"] = NoConn

\* The place in the file of the last chunk of the i-th Write.
LastChunk(i) == written[i].chunks[Len(written[i].chunks)]

\* The i-th Write has padded the block that the Write before it left.
Padded(i) == i > 1 /\ written[i].chunks[1].from > LastChunk(i - 1).to

\* C37: whatever has been written to an open segment, Read at the block number
\* and chunk offset that a Write has returned yields exactly the bytes of that
\* Write, without an error: also when the data was split into a first, middle
\* and last chunk over several blocks, when it follows the padding of a block,
\* and whatever blocks the cache holds.
C37_ReadReturnsWhatWasWritten ==
    (~crashed /\ ~seg.closed) =>
        \A i \in DOMAIN written :
            LET r == ReadResult(seg, written[i].position.BlockNumber,
                                written[i].position.ChunkOffset)
            IN r.err = "nil" /\ r.value = written[i].data

\* A Write was split into three chunks, a later Write has padded a block, a
\* Read has put a block into the cache, and the segment is open.
C37_Witness ==
    /\ ~seg.closed
    /\ \E i \in DOMAIN written : Len(written[i].chunks) = 3
    /\ \E i \in DOMAIN written : Padded(i)
    /\ seg.cache.entries # <<>>

\* C38: a reader made by NewReader returns, Next by Next, the data of the
\* Writes in the order in which they were written, each with the block number
\* and chunk offset at which it starts; its next Next yields the data of the
\* first Write not yet returned, and io.EOF exactly when every Write has been
\* returned.
C38_ReaderReturnsWritesInOrder ==
    /\ ~crashed
    /\ Len(returned) <= Len(written)
    /\ \A i \in DOMAIN returned :
          /\ returned[i].value = written[i].data
          /\ returned[i].position.BlockNumber = written[i].position.BlockNumber
          /\ returned[i].position.ChunkOffset = written[i].position.ChunkOffset
    /\ nextErr \in {"nil", "EOF"}
    /\ (segReader # NoReader /\ ~seg.closed) =>
          LET r == readInternal(seg, segReader.blockNumber, segReader.chunkOffset, <<>>)
          IN IF Len(returned) = Len(written)
             THEN r.err = "EOF"
             ELSE r.err = "nil" /\ r.value = written[Len(returned) + 1].data

\* The reader has returned all the Writes, of which one was split into chunks
\* and one has padded a block, and its latest Next has returned io.EOF.
C38_Witness ==
    /\ Len(written) = MaxWrites
    /\ Len(returned) = MaxWrites
    /\ nextErr = "EOF"
    /\ \E i \in DOMAIN written : Len(written[i].chunks) > 1
    /\ \E i \in DOMAIN written : Padded(i)

\* C39: after every Write the size of the current block is below blockSize, no
\* chunk that was written lies across the boundary of two blocks, writeInternal
\* has not panicked, and Size() is the number of bytes in the file, headers and
\* padding included.
C39_BlockSizeStaysBelowLimit ==
    /\ ~crashed
    /\ seg.currentBlockSize < blockSize
    /\ Size(seg) = Len(seg.fd)
    /\ \A i \in DOMAIN written : \A j \in DOMAIN written[i].chunks :
          LET chunk == written[i].chunks[j]
          IN /\ chunk.to - chunk.from >= chunkHeaderSize
             /\ chunk.from \div blockSize = (chunk.to - 1) \div blockSize

\* Writes have filled the current block exactly, one of them after padding the
\* block before, and one in several chunks.
C39_Witness ==
    /\ Len(written) = MaxWrites
    /\ seg.currentBlockSize = 0
    /\ LastChunk(MaxWrites).to = Len(seg.fd)
    /\ \E i \in DOMAIN written : Padded(i)
    /\ \E i \in DOMAIN written : Len(written[i].chunks) > 1

====
